---- MODULE Spec2Model ----
(***************************************************************************)
(* Vault-0: encrypted vault store, mediation proxy, 402 settlement and     *)
(* evidence log, modelled from src/src-tauri/src.                          *)
(*                                                                         *)
(* Strings whose characters the code inspects (hosts, domains, paths,      *)
(* header names, passphrases) are sequences of one-character strings.      *)
(***************************************************************************)
EXTENDS Integers, Sequences, FiniteSets, TLC

VARIABLES
    VAULT,      \* vault_store.rs VAULT: None or the unlocked session
    file,       \* the sealed file vault.enc on disk
    ret,        \* what the last control-surface call returned
    hist,       \* history of the vault calls since the last successful create
    ProxyState, \* proxy.rs STATE: ProxyState {vault, policy}
    wallet,     \* wallet.json on disk and the mnemonic in the OS keychain
    LOG,        \* evidence.rs LOG
    PENDING,    \* x402.rs PENDING
    reqs,       \* the requests handled by proxy_handler, by request id
    RUNNING,    \* proxy.rs RUNNING: the AtomicBool
    servers,    \* the server threads start() spawned: waiting to bind, and listening
    threads,    \* the callers of start(), stop() and is_running(), each at its position
    flips,      \* history: the successful start() and stop() calls, in the order of their swaps
    appended,   \* history: every entry pushed to the evidence log, in the order of the appends
    recorded,   \* history: every payment recorded as pending, in recording order
    calls,      \* the operations in flight on each thread: position and local variables
    clock       \* the system clock, in milliseconds

vars ==
    <<VAULT, file, ret, hist, ProxyState, wallet, LOG, PENDING, reqs, RUNNING, servers, threads,
      flips, appended, recorded, calls, clock>>

vaultVars == <<VAULT, file, hist>>
proxyVars == <<ProxyState, wallet, LOG, PENDING, reqs, appended, recorded>>
startVars == <<RUNNING, servers, threads, flips>>
flightVars == <<calls, clock>>
runVars == <<startVars, flightVars>>

\* a thread with no operation in flight
NoCall == [pc |-> "none"]

\* Option<T>: no value, or one
NoneOpt == <<>>
Some(x) == <<x>>
IsSome(o) == o # <<>>
Unwrap(o) == o[1]

-----------------------------------------------------------------------------
(* Bounds of the model *)

MaxReq == 1         \* requests the proxy receives in one run

-----------------------------------------------------------------------------
(* str: starts_with / ends_with / contains / split / to_lowercase *)

StartsWith(s, p) == Len(p) <= Len(s) /\ SubSeq(s, 1, Len(p)) = p

EndsWith(s, d) == Len(d) <= Len(s) /\ SubSeq(s, Len(s) - Len(d) + 1, Len(s)) = d

Contains(s, p) == \E i \in 1..(Len(s) - Len(p) + 1) : SubSeq(s, i, i + Len(p) - 1) = p

\* s.split(c).next(): the part of s before the first c, all of s when there is none
RECURSIVE SplitFirst(_, _)
SplitFirst(s, c) ==
    IF s = <<>> \/ Head(s) = c THEN <<>> ELSE <<Head(s)>> \o SplitFirst(Tail(s), c)

UpperLower ==
    [c \in {"A", "C", "D", "E", "H", "I", "L", "M", "N", "O", "P", "Q", "R", "S", "T", "U", "Y"} |->
        CASE c = "A" -> "a" [] c = "C" -> "c" [] c = "D" -> "d" [] c = "E" -> "e"
          [] c = "H" -> "h" [] c = "I" -> "i" [] c = "L" -> "l" [] c = "M" -> "m"
          [] c = "N" -> "n" [] c = "O" -> "o" [] c = "P" -> "p" [] c = "Q" -> "q"
          [] c = "R" -> "r" [] c = "S" -> "s" [] c = "T" -> "t" [] c = "U" -> "u"
          [] c = "Y" -> "y"]

ToLower(s) == [i \in 1..Len(s) |-> IF s[i] \in DOMAIN UpperLower THEN UpperLower[s[i]] ELSE s[i]]

EqIgnoreAsciiCase(a, b) == ToLower(a) = ToLower(b)

-----------------------------------------------------------------------------
(* results *)

Ok(v) == [ok |-> TRUE, val |-> v]
Err(e) == [ok |-> FALSE, err |-> e]

-----------------------------------------------------------------------------
(* vault_store.rs *)

PassA == <<"c", "o", "r", "r", "e", "c", "t", "-", "h", "o", "r", "s", "e">>
PassB == <<"b", "a", "t", "t", "e", "r", "y", "-", "s", "t", "a", "p", "l", "e">>
PassShort == <<"h", "u", "n", "t", "e", "r", "2">>

PASSPHRASES == {PassA, PassB, PassShort}
SALTS == {"salt1", "salt2"}
NONCES == {"nonce1", "nonce2"}
ALIASES == {"openai", "github"}
Str_sk_LIVE == <<"s", "k", "-", "L", "I", "V", "E">>
Str_sk_NEXT == <<"s", "k", "-", "N", "E", "X", "T">>
VALUES == {Str_sk_LIVE, Str_sk_NEXT}
PROVIDERS == {"openai"}
TIMES == {"1700000000"}

VaultEntry(alias, provider, value, created_at) ==
    [alias |-> alias, provider |-> provider, value |-> value, created_at |-> created_at]

\* Argon2id is a function of the passphrase and the salt; distinct inputs give
\* distinct keys
derive_key(passphrase, salt) == <<passphrase, salt>>

\* serde_json::to_vec(entries): the entries' fields, in order
RECURSIVE to_vec(_)
to_vec(entries) ==
    IF entries = <<>> THEN <<>>
    ELSE <<Head(entries).alias, Head(entries).provider, Head(entries).value,
           Head(entries).created_at>> \o to_vec(Tail(entries))

\* serde_json::from_slice::<Vec<VaultEntry>>
RECURSIVE from_slice(_)
from_slice(plaintext) ==
    IF Len(plaintext) < 4 THEN <<>>
    ELSE <<VaultEntry(plaintext[1], plaintext[2], plaintext[3], plaintext[4])>>
           \o from_slice(SubSeq(plaintext, 5, Len(plaintext)))

\* AES-256-GCM: the ciphertext opens only under the key and nonce that sealed it
encrypt_entries(entries, key, nonce) ==
    [nonce |-> nonce, ciphertext |-> [k |-> key, n |-> nonce, pt |-> to_vec(entries)]]

decrypt_entries(ciphertext, nonce, key) ==
    IF ciphertext.k = key /\ ciphertext.n = nonce
    THEN Ok(from_slice(ciphertext.pt))
    ELSE Err("Decryption failed. Wrong passphrase?")

Absent == [kind |-> "absent"]
\* fs::write creates or truncates the file and then writes the bytes: a write that
\* fails after the truncation leaves a file that is not the whole record
Partial == [kind |-> "partial"]
VaultFile(salt, nonce, ciphertext) ==
    [kind |-> "record", salt |-> salt, nonce |-> nonce, ciphertext |-> ciphertext]

\* how a write to the disk can end: done; failed before the file was touched (mkdir,
\* open); failed, or the process died, after the file was truncated
WRITES == {"ok", "err_create", "err_write"}

\* how sealing the entries can end: as a write ends, or getrandom or the cipher failed
SEALS == WRITES \cup {"err_encrypt"}

\* the file after write_vault_file(salt, nonce, ciphertext) ended as w
write_vault_file(old, salt, nonce, ciphertext, w) ==
    CASE w = "ok" -> VaultFile(salt, nonce, ciphertext)
      [] w = "err_create" -> old
      [] w = "err_write" -> Partial

read_vault_file(f) ==
    CASE f.kind = "absent" -> Err("read vault")
      [] f.kind = "partial" -> Err("parse vault")
      [] OTHER -> Ok(f)

VaultState(entries, key) == [entries |-> entries, derived_key |-> key, unlocked |-> TRUE]

\* a retain that keeps every entry
retain_all(entries, alias) == entries

\* entries.retain(|e| e.alias != alias)
retain(entries, alias) == SelectSeq(entries, LAMBDA e : e.alias # alias)

find(entries, alias) == SelectSeq(entries, LAMBDA e : e.alias = alias)

\* a lookup that reports a missing session as a missing alias
vault_get_secret_result_unlocked(alias) ==
    IF ~IsSome(VAULT) \/ find(Unwrap(VAULT).entries, alias) = <<>> THEN Err("No entry with alias")
    ELSE Ok(Head(find(Unwrap(VAULT).entries, alias)).value)

vault_get_secret_result(alias) ==
    IF ~IsSome(VAULT) THEN Err("Vault is locked")
    ELSE IF find(Unwrap(VAULT).entries, alias) = <<>> THEN Err("No entry with alias")
    ELSE Ok(Head(find(Unwrap(VAULT).entries, alias)).value)

-----------------------------------------------------------------------------
(* history of the vault calls, to state the round trip of a session *)

NoHist ==
    [pass |-> <<>>, last |-> [a \in ALIASES |-> NoneOpt], clean |-> FALSE, locked |-> FALSE,
     replaced |-> FALSE]

\* replaced: the create that began the history replaced a sealed file and a session
\* that held entries.
\* a call failed part-way, or the file was deleted: the calls since create are no
\* longer a sequence of successful add_entry/delete_entry calls, and no history is kept
Unclean == NoHist

-----------------------------------------------------------------------------
(* vault_store.rs: the commands *)

\* a create that carries the entries of the open session over into the new vault
vault_create_keep_session(passphrase, salt, nonce, w) ==
    IF Len(passphrase) < 12
    THEN /\ ret' = [op |-> "vault_create", arg |-> passphrase,
                 res |-> Err("Passphrase must be at least 12 characters")]
         /\ UNCHANGED <<VAULT, file, hist>>
    ELSE LET key == derive_key(passphrase, salt)
             kept == IF IsSome(VAULT) THEN Unwrap(VAULT).entries ELSE <<>>
             enc == encrypt_entries(kept, key, nonce)
         IN  /\ file' = write_vault_file(file, salt, enc.nonce, enc.ciphertext, w)
             /\ IF w = "ok"
                THEN /\ VAULT' = Some(VaultState(kept, key))
                     /\ ret' = [op |-> "vault_create", arg |-> passphrase, res |-> Ok(<<>>)]
                     /\ hist' = [pass |-> passphrase, last |-> [a \in ALIASES |-> NoneOpt],
                                 clean |-> TRUE, locked |-> FALSE,
                                 replaced |-> /\ file.kind = "record" /\ IsSome(VAULT)
                                              /\ Unwrap(VAULT).entries # <<>>]
                ELSE /\ ret' = [op |-> "vault_create", arg |-> passphrase, res |-> Err("write")]
                     /\ hist' = Unclean
                     /\ UNCHANGED VAULT

\* a create that takes a passphrase of any length
vault_create_any_length(passphrase, salt, nonce, w) ==
    LET key == derive_key(passphrase, salt)
        enc == encrypt_entries(<<>>, key, nonce)
    IN  /\ file' = write_vault_file(file, salt, enc.nonce, enc.ciphertext, w)
        /\ IF w = "ok"
           THEN /\ VAULT' = Some(VaultState(<<>>, key))
                /\ ret' = [op |-> "vault_create", arg |-> passphrase, res |-> Ok(<<>>)]
                /\ hist' = [pass |-> passphrase, last |-> [a \in ALIASES |-> NoneOpt],
                            clean |-> TRUE, locked |-> FALSE,
                            replaced |-> /\ file.kind = "record" /\ IsSome(VAULT)
                                             /\ Unwrap(VAULT).entries # <<>>]
           ELSE /\ ret' = [op |-> "vault_create", arg |-> passphrase, res |-> Err("write")]
                /\ hist' = Unclean
                /\ UNCHANGED VAULT

vault_create(passphrase, salt, nonce, w) ==
    IF Len(passphrase) < 12
    THEN /\ ret' = [op |-> "vault_create", arg |-> passphrase,
                 res |-> Err("Passphrase must be at least 12 characters")]
         /\ UNCHANGED <<VAULT, file, hist>>
    ELSE LET key == derive_key(passphrase, salt)
             enc == encrypt_entries(<<>>, key, nonce)
         IN  /\ file' = write_vault_file(file, salt, enc.nonce, enc.ciphertext, w)
             /\ IF w = "ok"
                THEN /\ VAULT' = Some(VaultState(<<>>, key))
                     /\ ret' = [op |-> "vault_create", arg |-> passphrase, res |-> Ok(<<>>)]
                     /\ hist' = [pass |-> passphrase, last |-> [a \in ALIASES |-> NoneOpt],
                                 clean |-> TRUE, locked |-> FALSE,
                                 replaced |-> /\ file.kind = "record" /\ IsSome(VAULT)
                                             /\ Unwrap(VAULT).entries # <<>>]
                ELSE /\ ret' = [op |-> "vault_create", arg |-> passphrase, res |-> Err("write")]
                     /\ hist' = Unclean
                     /\ UNCHANGED VAULT

vault_unlock(passphrase) ==
    LET rd == read_vault_file(file) IN
    IF ~rd.ok
    THEN /\ ret' = [op |-> "vault_unlock", arg |-> passphrase, res |-> rd]
         /\ UNCHANGED <<VAULT, file, hist>>
    ELSE LET key == derive_key(passphrase, rd.val.salt)
             dec == decrypt_entries(rd.val.ciphertext, rd.val.nonce, key)
         IN  IF ~dec.ok
             THEN /\ ret' = [op |-> "vault_unlock", arg |-> passphrase, res |-> dec]
                  /\ UNCHANGED <<VAULT, file, hist>>
             ELSE /\ VAULT' = Some(VaultState(dec.val, key))
                  /\ ret' = [op |-> "vault_unlock", arg |-> passphrase, res |-> Ok(<<>>)]
                  /\ UNCHANGED <<file, hist>>

vault_lock ==
    /\ VAULT' = NoneOpt
    /\ ret' = [op |-> "vault_lock", arg |-> <<>>, res |-> Ok(<<>>)]
    /\ hist' = IF hist.clean THEN [hist EXCEPT !.locked = TRUE] ELSE hist
    /\ UNCHANGED file

\* vault_create up to the write of the file (lines 144-152): no lock is held yet
vault_create_write(t, passphrase, salt, nonce) ==
    /\ calls[t] = NoCall
    /\ IF Len(passphrase) < 12
       THEN /\ ret' = [op |-> "vault_create", arg |-> passphrase,
                       res |-> Err("Passphrase must be at least 12 characters")]
            /\ UNCHANGED <<VAULT, file, hist, calls>>
       ELSE LET key == derive_key(passphrase, salt)
                enc == encrypt_entries(<<>>, key, nonce)
            IN  /\ file' = write_vault_file(file, salt, enc.nonce, enc.ciphertext, "ok")
                /\ calls' = [calls EXCEPT ![t] = [pc |-> "vault_create", arg |-> passphrase,
                                                  key |-> key, entries |-> <<>>]]
                /\ hist' = Unclean
                /\ UNCHANGED <<VAULT, ret>>

\* vault_unlock up to the decryption (lines 166-168): no lock is held yet
vault_unlock_read(t, passphrase) ==
    /\ calls[t] = NoCall
    /\ LET rd == read_vault_file(file)
           key == derive_key(passphrase, rd.val.salt)
           dec == decrypt_entries(rd.val.ciphertext, rd.val.nonce, key)
       IN  IF ~rd.ok
           THEN /\ ret' = [op |-> "vault_unlock", arg |-> passphrase, res |-> rd]
                /\ UNCHANGED <<VAULT, file, hist, calls>>
           ELSE IF ~dec.ok
           THEN /\ ret' = [op |-> "vault_unlock", arg |-> passphrase, res |-> dec]
                /\ UNCHANGED <<VAULT, file, hist, calls>>
           ELSE /\ calls' = [calls EXCEPT ![t] = [pc |-> "vault_unlock", arg |-> passphrase,
                                                  key |-> key, entries |-> dec.val]]
                /\ hist' = Unclean
                /\ UNCHANGED <<VAULT, file, ret>>

\* the rest of vault_create (153-160) and of vault_unlock (169-176): take the write
\* lock, install the session, return
vault_install(t) ==
    /\ calls[t].pc \in {"vault_create", "vault_unlock"}
    /\ VAULT' = Some(VaultState(calls[t].entries, calls[t].key))
    /\ ret' = [op |-> calls[t].pc, arg |-> calls[t].arg, res |-> Ok(<<>>)]
    /\ calls' = [calls EXCEPT ![t] = NoCall]
    /\ UNCHANGED <<file, hist>>

\* the part add_entry and delete_entry share: the session already holds `entries`;
\* encrypt them, read the salt back from the file and write the file
reseal(op, arg, entries, nonce, w, last) ==
    LET enc == encrypt_entries(entries, Unwrap(VAULT).derived_key, nonce)
        rd == read_vault_file(file)
    IN  /\ VAULT' = Some([Unwrap(VAULT) EXCEPT !.entries = entries])
        /\ IF w = "err_encrypt"
           THEN /\ ret' = [op |-> op, arg |-> arg, res |-> Err("encrypt")]
                /\ hist' = Unclean
                /\ UNCHANGED file
           ELSE IF ~rd.ok
           THEN /\ ret' = [op |-> op, arg |-> arg, res |-> rd]
                /\ hist' = Unclean
                /\ UNCHANGED file
           ELSE /\ file' = write_vault_file(file, rd.val.salt, enc.nonce, enc.ciphertext, w)
                /\ ret' = [op |-> op, arg |-> arg, res |-> IF w = "ok" THEN Ok(<<>>) ELSE Err("write")]
                /\ hist' = IF w # "ok" THEN Unclean
                           ELSE IF hist.clean THEN [hist EXCEPT !.last = last]
                           ELSE hist

vault_add_entry(alias, value, provider, now, nonce, w) ==
    IF ~IsSome(VAULT)
    THEN /\ ret' = [op |-> "vault_add_entry", arg |-> alias, res |-> Err("Vault is locked")]
         /\ UNCHANGED <<VAULT, file, hist>>
    ELSE reseal("vault_add_entry", alias,
                Append(retain(Unwrap(VAULT).entries, alias), VaultEntry(alias, provider, value, now)),
                nonce, w, [hist.last EXCEPT ![alias] = Some(value)])

vault_delete_entry(alias, nonce, w) ==
    IF ~IsSome(VAULT)
    THEN /\ ret' = [op |-> "vault_delete_entry", arg |-> alias, res |-> Err("Vault is locked")]
         /\ UNCHANGED <<VAULT, file, hist>>
    ELSE reseal("vault_delete_entry", alias, retain(Unwrap(VAULT).entries, alias), nonce, w,
                [hist.last EXCEPT ![alias] = NoneOpt])

vault_delete_file(rmOk) ==
    IF file.kind # "absent" /\ ~rmOk
    THEN /\ ret' = [op |-> "vault_delete_file", arg |-> <<>>, res |-> Err("delete vault")]
         /\ UNCHANGED <<VAULT, file, hist>>
    ELSE /\ file' = Absent
         /\ VAULT' = NoneOpt
         /\ ret' = [op |-> "vault_delete_file", arg |-> <<>>, res |-> Ok(<<>>)]
         /\ hist' = Unclean

vault_get_secret(alias) ==
    /\ ret' = [op |-> "vault_get_secret", arg |-> alias, res |-> vault_get_secret_result(alias)]
    /\ UNCHANGED <<VAULT, file, hist>>

\* a listing that shortens long values only
preview_long_only(value) ==
    IF Len(value) > 6
    THEN SubSeq(value, 1, 3) \o <<".", ".", ".">> \o SubSeq(value, Len(value) - 2, Len(value))
    ELSE value

\* lines 222-226: the preview of a value
preview(value) ==
    IF Len(value) > 6
    THEN SubSeq(value, 1, 3) \o <<".", ".", ".">> \o SubSeq(value, Len(value) - 2, Len(value))
    ELSE <<"*", "*", "*", "*">>

VaultEntryInfo(alias, provider, pre, created_at) ==
    [alias |-> alias, provider |-> provider, preview |-> pre, created_at |-> created_at]

vault_list_entries_result ==
    IF ~IsSome(VAULT) THEN Err("Vault is locked")
    ELSE Ok([i \in 1..Len(Unwrap(VAULT).entries) |->
                LET e == Unwrap(VAULT).entries[i]
                IN  VaultEntryInfo(e.alias, e.provider, preview(e.value), e.created_at)])

vault_list_entries ==
    /\ ret' = [op |-> "vault_list_entries", arg |-> <<>>, res |-> vault_list_entries_result]
    /\ UNCHANGED <<VAULT, file, hist>>

\* encrypt_bytes_with_vault_key: nonce || ciphertext under the session key; encOk:
\* getrandom and the cipher succeeded
encrypt_bytes_with_vault_key(plaintext, nonce, encOk) ==
    /\ ret' = [op |-> "encrypt_bytes_with_vault_key", arg |-> plaintext,
               res |-> IF ~IsSome(VAULT) THEN Err("Vault is locked")
                       ELSE IF ~encOk THEN Err("encrypt")
                       ELSE Ok(<<nonce, [k |-> Unwrap(VAULT).derived_key, n |-> nonce,
                                         pt |-> plaintext]>>)]
    /\ UNCHANGED <<VAULT, file, hist>>

\* vault_is_unlocked: the session's flag, false when there is no session
vault_is_unlocked ==
    /\ ret' = [op |-> "vault_is_unlocked", arg |-> <<>>,
               res |-> IF IsSome(VAULT) THEN Unwrap(VAULT).unlocked ELSE FALSE]
    /\ UNCHANGED <<VAULT, file, hist>>

-----------------------------------------------------------------------------
(* policy.rs *)

Policy(allow, block, cap, redact, auto) ==
    [allow_domains |-> allow, block_domains |-> block, spend_cap_cents |-> cap,
     output_redact_patterns |-> redact, auto_settle_402 |-> auto]

\* #[derive(Default)]
PolicyDefault == Policy({}, {}, NoneOpt, <<>>, FALSE)

-----------------------------------------------------------------------------
(* mcp_guard.rs *)

Str_mcp == <<"m", "c", "p">>
Str_localhost == <<"l", "o", "c", "a", "l", "h", "o", "s", "t">>
Str_127_0_0_1 == <<"1", "2", "7", ".", "0", ".", "0", ".", "1">>

ALLOWED_ORIGINS == {Str_localhost, Str_127_0_0_1}

is_mcp_request(host, path) ==
    Contains(ToLower(path), Str_mcp) \/ Contains(ToLower(host), Str_mcp)

origin_allowed(host) ==
    \/ ToLower(host) \in ALLOWED_ORIGINS
    \/ SplitFirst(ToLower(host), ":") \in ALLOWED_ORIGINS

\* a guard that lets the caller's token through
token_passthrough_allowed == FALSE

token_passthrough_disabled == TRUE

DigitVal ==
    [c \in {"0", "1", "2", "3", "4", "5", "6", "7", "8", "9"} |->
        CASE c = "0" -> 0 [] c = "1" -> 1 [] c = "2" -> 2 [] c = "3" -> 3 [] c = "4" -> 4
          [] c = "5" -> 5 [] c = "6" -> 6 [] c = "7" -> 7 [] c = "8" -> 8 [] c = "9" -> 9]

IsDigits(s) == s # <<>> /\ \A i \in 1..Len(s) : s[i] \in DOMAIN DigitVal

RECURSIVE ParseNat(_)
ParseNat(s) == IF s = <<>> THEN 0 ELSE 10 * ParseNat(SubSeq(s, 1, Len(s) - 1)) + DigitVal[s[Len(s)]]

DigitChar == <<"0", "1", "2", "3", "4", "5", "6", "7", "8", "9">>

\* format!("{}", n) of an unsigned number
RECURSIVE Digits(_)
Digits(n) == IF n < 10 THEN <<DigitChar[n + 1]>> ELSE Digits(n \div 10) \o <<DigitChar[(n % 10) + 1]>>

\* s.split(c): all the parts
RECURSIVE Split(_, _)
Split(s, c) ==
    LET first == SplitFirst(s, c) IN
    IF Len(first) = Len(s) THEN <<first>>
    ELSE <<first>> \o Split(SubSeq(s, Len(first) + 2, Len(s)), c)

\* one octet of Ipv4Addr::from_str: 1 to 3 digits, no leading zero, at most 255
IsOctet(s) ==
    /\ IsDigits(s)
    /\ Len(s) <= 3
    /\ (Len(s) > 1 => s[1] # "0")
    /\ ParseNat(s) <= 255

\* IpAddr::from_str(host): the four octets, or none when host is no IPv4 literal.
\* host is what precedes the first ':', which is never an IPv6 literal
IpAddr_from_str(host) ==
    LET parts == Split(host, ".") IN
    IF Len(parts) = 4 /\ \A i \in 1..4 : IsOctet(parts[i])
    THEN Some([i \in 1..4 |-> ParseNat(parts[i])])
    ELSE NoneOpt

is_private_or_internal(a) ==
    \/ a[1] = 10 \/ (a[1] = 172 /\ a[2] >= 16 /\ a[2] <= 31) \/ (a[1] = 192 /\ a[2] = 168)
    \/ a[1] = 127
    \/ (a[1] = 169 /\ a[2] = 254)
    \/ (a[1] = 255 /\ a[2] = 255 /\ a[3] = 255 /\ a[4] = 255)
    \/ a[1] = 169

would_be_ssrf(authority) ==
    LET host == SplitFirst(authority, ":")
        ip == IpAddr_from_str(host)
    IN  IF IsSome(ip) THEN is_private_or_internal(Unwrap(ip))
        ELSE FALSE

-----------------------------------------------------------------------------
(* proxy.rs: the pure parts *)

Str_openai_com == <<"o", "p", "e", "n", "a", "i", ".", "c", "o", "m">>
Str_anthropic_com == <<"a", "n", "t", "h", "r", "o", "p", "i", "c", ".", "c", "o", "m">>
Str_https == <<"h", "t", "t", "p", "s">>
Str_http == <<"h", "t", "t", "p">>
Str_sep == <<":", "/", "/">>

\* Uri: scheme, host, port and query are optional
Uri(scheme, host, port, path, query) ==
    [scheme |-> scheme, host |-> host, port |-> port, path |-> path, query |-> query]

\* uri.authority(): host[:port]
authority(uri) ==
    IF ~IsSome(uri.host) THEN NoneOpt
    ELSE IF IsSome(uri.port) THEN Some(Unwrap(uri.host) \o <<":">> \o Unwrap(uri.port))
    ELSE uri.host

\* lines 90-94: the host of the URI, else the Host header up to its port
resolve_host(uri, host_header) ==
    IF IsSome(uri.host) /\ Unwrap(uri.host) # <<>> THEN Unwrap(uri.host)
    ELSE SplitFirst(host_header, ":")

\* an admission that lets a host of the allow list through before it looks at the
\* block list
admission_allow_first(policy, host) ==
    IF policy.allow_domains # {} /\ \E d \in policy.allow_domains : EndsWith(host, d)
    THEN [allowed |-> TRUE, deny_reason |-> ""]
    ELSE IF \E d \in policy.block_domains : EndsWith(host, d)
    THEN [allowed |-> FALSE, deny_reason |-> "domain blocked by policy"]
    ELSE IF policy.allow_domains # {}
    THEN [allowed |-> FALSE, deny_reason |-> "domain not in allow list"]
    ELSE [allowed |-> TRUE, deny_reason |-> ""]

\* lines 96-109: (allowed, deny_reason)
admission(policy, host) ==
    LET allow == \/ policy.allow_domains = {}
                 \/ \E d \in policy.allow_domains : EndsWith(host, d)
        block == \E d \in policy.block_domains : EndsWith(host, d)
    IN  IF block THEN [allowed |-> FALSE, deny_reason |-> "domain blocked by policy"]
        ELSE IF policy.allow_domains # {} /\ ~allow
        THEN [allowed |-> FALSE, deny_reason |-> "domain not in allow list"]
        ELSE [allowed |-> TRUE, deny_reason |-> ""]

build_full_uri(uri, host) ==
    LET viaHttps == StartsWith(uri.path, Str_https \o Str_sep)
        viaHttp == StartsWith(uri.path, Str_http \o Str_sep)
        s == IF viaHttps THEN SubSeq(uri.path, 9, Len(uri.path))
             ELSE SubSeq(uri.path, 8, Len(uri.path))
        scheme == IF IsSome(uri.scheme) THEN Unwrap(uri.scheme) ELSE Str_https
        query == IF IsSome(uri.query) THEN <<"?">> \o Unwrap(uri.query) ELSE <<>>
    IN  IF (viaHttps \/ viaHttp) /\ (Contains(s, <<"/">>) \/ Contains(s, <<"?">>))
        THEN (IF StartsWith(uri.path, Str_https) THEN Str_https ELSE Str_http) \o Str_sep \o s
        ELSE IF host = <<>>
        THEN scheme \o Str_sep \o Str_localhost \o uri.path \o query
        ELSE IF IsSome(uri.port)
        THEN scheme \o Str_sep \o host \o <<":">> \o Unwrap(uri.port) \o uri.path \o query
        ELSE scheme \o Str_sep \o host \o uri.path \o query

alias_for_host(host) ==
    IF Contains(host, Str_openai_com) THEN Some("openai")
    ELSE IF Contains(host, Str_anthropic_com) THEN Some("anthropic")
    ELSE NoneOpt

\* str::replace for a pattern that is a literal
Redacted == <<"[REDACTED]">>
RECURSIVE ReplaceAll(_, _)
ReplaceAll(text, lit) ==
    IF text = <<>> THEN <<>>
    ELSE IF lit # <<>> /\ StartsWith(text, lit)
    THEN Redacted \o ReplaceAll(SubSeq(text, Len(lit) + 1, Len(text)), lit)
    ELSE <<Head(text)>> \o ReplaceAll(Tail(text), lit)

\* a redact pattern: a regex that compiles to a literal match, or one that does not
\* compile (Regex::new fails and the pattern is skipped)
Pattern(valid, lit) == [valid |-> valid, lit |-> lit]

\* a body: bytes that are UTF-8 or not, the JSON value they parse to (if any), and
\* the text the patterns run over
Body(utf8, json, text) == [utf8 |-> utf8, json |-> json, text |-> text]

RECURSIVE redact_text(_, _)
redact_text(text, patterns) ==
    IF patterns = <<>> THEN text
    ELSE redact_text(IF Head(patterns).valid THEN ReplaceAll(text, Head(patterns).lit) ELSE text,
                     Tail(patterns))

redact_body(body, patterns) ==
    IF ~body.utf8 THEN body
    ELSE [body EXCEPT !.text = redact_text(body.text, patterns)]

-----------------------------------------------------------------------------
(* x402.rs *)

Str_payment_required ==
    <<"p", "a", "y", "m", "e", "n", "t", "-", "r", "e", "q", "u", "i", "r", "e", "d">>
Str_402 == <<"4", "0", "2">>
Str_base == <<"b", "a", "s", "e">>
Str_base_sepolia == Str_base \o <<"-", "s", "e", "p", "o", "l", "i", "a">>

\* serde_json::Value
JNum(n) == [t |-> "num", v |-> n]
JStr(s) == [t |-> "str", v |-> s]
JBool(b) == [t |-> "bool", v |-> b]
JObj(members) == [t |-> "obj", v |-> members]

\* Value::get(key)
get(value, key) ==
    IF value.t = "obj" /\ key \in DOMAIN value.v THEN Some(value.v[key]) ELSE NoneOpt

as_u64(o) == IF IsSome(o) /\ Unwrap(o).t = "num" /\ Unwrap(o).v >= 0 THEN Some(Unwrap(o).v) ELSE NoneOpt
as_str(o) == IF IsSome(o) /\ Unwrap(o).t = "str" THEN Some(Unwrap(o).v) ELSE NoneOpt
as_bool(o) == IF IsSome(o) /\ Unwrap(o).t = "bool" THEN Some(Unwrap(o).v) ELSE NoneOpt
unwrap_or(o, d) == IF IsSome(o) THEN Unwrap(o) ELSE d

PaymentIntent(amount_cents, recipient, network, resource) ==
    [amount_cents |-> amount_cents, recipient |-> recipient, network |-> network,
     resource |-> resource]

intent_of(parsed) ==
    PaymentIntent(unwrap_or(as_u64(get(parsed, "amount_cents")), 0),
                  unwrap_or(as_str(get(parsed, "recipient")), <<>>),
                  unwrap_or(as_str(get(parsed, "network")), Str_base),
                  as_str(get(parsed, "resource")))

ZeroIntent == PaymentIntent(0, <<>>, Str_base, NoneOpt)

\* a header: its name, its value as text, and the JSON value the text parses to
Header(name, text, json) == [name |-> name, text |-> text, json |-> json]

\* a test that matches the header name as written
announces_402_exact(h) == h.name = Str_payment_required \/ Contains(h.text, Str_402)

\* line 27: the test of one header
announces_402(h) == EqIgnoreAsciiCase(h.name, Str_payment_required) \/ Contains(h.text, Str_402)

\* the first payment-required header whose value is JSON, as the loop finds it
RECURSIVE first_json_header(_)
first_json_header(headers) ==
    IF headers = <<>> THEN NoneOpt
    ELSE IF EqIgnoreAsciiCase(Head(headers).name, Str_payment_required) /\ IsSome(Head(headers).json)
    THEN Head(headers).json
    ELSE first_json_header(Tail(headers))

parse_402_required(headers, body) ==
    LET has_402 == \E i \in 1..Len(headers) : announces_402(headers[i]) IN
    IF ~has_402
    THEN IF IsSome(body.json) /\ unwrap_or(as_bool(get(Unwrap(body.json), "payment_required")), FALSE)
         THEN Some(intent_of(Unwrap(body.json)))
         ELSE NoneOpt
    ELSE IF IsSome(first_json_header(headers))
         THEN Some(intent_of(Unwrap(first_json_header(headers))))
         ELSE Some(ZeroIntent)

PENDING_CAP == 100

\* a record_pending that drops the newest payment of a full queue
record_pending_drop_newest(queue, intent, id, ts) ==
    LET pushed == Append(queue, [id |-> id, intent |-> intent, ts |-> ts]) IN
    IF Len(pushed) > PENDING_CAP THEN queue ELSE pushed

\* record_pending: the queue after the push
record_pending(queue, intent, id, ts) ==
    LET pushed == Append(queue, [id |-> id, intent |-> intent, ts |-> ts]) IN
    IF Len(pushed) > PENDING_CAP THEN Tail(pushed) ELSE pushed

\* x402::record_pending on the shared queue
x402_record_pending(intent, id, ts) ==
    /\ PENDING' = record_pending(PENDING, intent, id, ts)
    /\ recorded' = Append(recorded, [id |-> id, intent |-> intent, ts |-> ts])

\* get_pending_402: a copy of the queue, oldest first
get_pending_402(queue) == Ok(queue)

-----------------------------------------------------------------------------
(* evidence.rs *)

LOG_CAP == 500

RECURSIVE drop_front(_)
drop_front(g) == IF Len(g) > LOG_CAP THEN drop_front(Tail(g)) ELSE g

\* a push that never drops
push_back_only(log, ts, kind, msg) == Append(log, [ts |-> ts, kind |-> kind, msg |-> msg])

\* push: the log after the push
push(log, ts, kind, msg) == drop_front(Append(log, [ts |-> ts, kind |-> kind, msg |-> msg]))

\* evidence::push on the shared log
evidence_push(ts, kind, msg) ==
    /\ LOG' = push(LOG, ts, kind, msg)
    /\ appended' = Append(appended, [ts |-> ts, kind |-> kind, msg |-> msg])

\* get_evidence_log: a copy of the log, oldest first
get_evidence_log(log) == Ok(log)

EvidenceStats(total, allowed, blocked, payment) ==
    [total |-> total, allowed |-> allowed, blocked |-> blocked, payment |-> payment]

\* lines 61-70: the entries of a kind
count_kind(log, kind) == Cardinality({i \in 1..Len(log) : log[i].kind = kind})

get_evidence_stats(log) ==
    Ok(EvidenceStats(Len(log), count_kind(log, "allowed"), count_kind(log, "blocked"),
                     count_kind(log, "payment")))

ReceiptEntry(ts, kind, msg, hash) == [ts |-> ts, kind |-> kind, msg |-> msg, hash |-> hash]

\* lines 88-94: the SHA-256 digest of the bytes of ts, kind and msg, one after the
\* other; distinct byte strings give distinct digests
hash_entry(ts, kind, msg) == <<"sha256">> \o ts \o kind \o msg

\* lines 96-106: each (ts, kind, msg) with its own digest, in the order given
export_receipt(entries) ==
    Ok([i \in 1..Len(entries) |->
           ReceiptEntry(entries[i][1], entries[i][2], entries[i][3],
                        hash_entry(entries[i][1], entries[i][2], entries[i][3]))])

\* the clock, in milliseconds since the epoch, as the code reads it
pay_id(now) == <<"pay_">> \o Digits(now)
as_secs(now) == now \div 1000
chrono_ts(now) ==
    Digits(now \div 1000) \o <<".">> \o <<DigitChar[((now % 1000) \div 100) + 1],
        DigitChar[((now % 100) \div 10) + 1], DigitChar[(now % 10) + 1]>>

-----------------------------------------------------------------------------
(* wallet.rs *)

HexDigits == DOMAIN DigitVal \cup {"a", "b", "c", "d", "e", "f", "A", "B", "C", "D", "E", "F"}

\* a parse that takes every recipient, the empty one as the zero address
parse_address_lenient(recipient) ==
    LET hex == IF StartsWith(recipient, <<"0", "x">>) THEN SubSeq(recipient, 3, Len(recipient))
               ELSE recipient
    IN  Ok(ToLower(hex))

\* recipient.parse::<Address>(): 40 hex digits, with or without 0x
parse_address(recipient) ==
    LET hex == IF StartsWith(recipient, <<"0", "x">>) THEN SubSeq(recipient, 3, Len(recipient))
               ELSE recipient
    IN  IF Len(hex) = 40 /\ \A i \in 1..40 : hex[i] \in HexDigits
        THEN Ok(ToLower(hex))
        ELSE Err("Invalid recipient address")

\* the address of the key a phrase derives
address_of(phrase) == <<"address of", phrase>>

NoWallet == [meta |-> NoneOpt, keychain |-> NoneOpt]

WalletInfo(has_wallet, address) ==
    [has_wallet |-> has_wallet, address |-> address, balance_cents |-> 0, network |-> Str_base]

\* get_wallet_info; readOk: wallet.json could be read and parsed
get_wallet_info(w, readOk) ==
    IF ~IsSome(w.meta) THEN Ok(WalletInfo(FALSE, <<>>))
    ELSE IF ~readOk THEN Err("read wallet.json")
    ELSE Ok(WalletInfo(TRUE, Unwrap(w.meta)))

chain_id(network) ==
    CASE network = Str_base -> 8453
      [] network = Str_base_sepolia -> 84532
      [] OTHER -> 8453

\* sign_x402_payment; keychainOk: the OS credential store answered
sign_x402_payment(w, amount_cents, recipient, network, keychainOk, nonce) ==
    IF ~keychainOk \/ ~IsSome(w.keychain) THEN Err("keychain")
    ELSE IF ~parse_address(recipient).ok THEN parse_address(recipient)
    ELSE Ok([from |-> address_of(Unwrap(w.keychain)), to |-> parse_address(recipient).val,
             value |-> amount_cents, chainId |-> chain_id(network), nonce |-> nonce])

-----------------------------------------------------------------------------
(* proxy.rs: proxy_handler *)

Str_Bearer == <<"B", "e", "a", "r", "e", "r">>

\* HeaderValue::from_str accepts visible ASCII, space and tab only
IsHeaderValue(v) == \A i \in 1..Len(v) : v[i] \notin {"\n", "\r"}

\* lines 166-171: format!("Bearer {}", key), or the static "Bearer" when that is no
\* header value
bearer(key) == IF IsHeaderValue(key) THEN Str_Bearer \o <<" ">> \o key ELSE Str_Bearer

\* lines 155-172: the headers sent upstream; a header map, by (lower-case) name
out_headers(headers, auth_header) ==
    LET kept == IF IsSome(auth_header) THEN DOMAIN headers \ {"authorization"}
                ELSE DOMAIN headers
        names == IF IsSome(auth_header) THEN kept \cup {"authorization"} ELSE kept
    IN  [n \in names |->
            IF n = "authorization" /\ IsSome(auth_header) THEN bearer(Unwrap(auth_header))
            ELSE headers[n]]

\* lines 201-206
should_auto_settle(p, intent) ==
    /\ p.auto_settle_402
    /\ (~IsSome(p.spend_cap_cents) \/ intent.amount_cents <= unwrap_or(p.spend_cap_cents, 0))

\* an incoming request
Request(method, uri, headers, body) ==
    [method |-> method, uri |-> uri, headers |-> headers, body |-> body]

\* a response: of the upstream, or the one the caller receives
Response(status, headers, body) == [status |-> status, headers |-> headers, body |-> body]

TextBody(text) == Body(TRUE, NoneOpt, text)

\* (StatusCode, String).into_response()
Plain(status, msg) == Response(status, <<>>, TextBody(msg))

ReqIds == 1..MaxReq

\* a request slot: the handler's locals, and what the handler has done so far
\* (sent: the upstream sends; pushed: its evidence entries; pended: its pending ids;
\* after_lock: the request was received with no vault session, after vault_lock or
\* vault_delete_file had returned)
Idle ==
    [pc |-> "idle", req |-> NoneOpt, host |-> <<>>, target_url |-> <<>>,
     auth_header |-> NoneOpt, out_headers |-> <<>>, redact_patterns |-> <<>>,
     upstream |-> NoneOpt, intent |-> NoneOpt, decision |-> NoneOpt, sig |-> NoneOpt,
     retry |-> NoneOpt,
     sent |-> <<>>, pushed |-> <<>>, pended |-> <<>>, looked_up |-> FALSE,
     resp |-> NoneOpt, end |-> "none", after_lock |-> FALSE]

\* a denial that answers the caller and leaves no evidence
Deny_unlogged(r, q, host, now, status, msg) ==
    /\ UNCHANGED <<LOG, appended>>
    /\ reqs' = [reqs EXCEPT ![r] =
            [@ EXCEPT !.pc = "done", !.req = Some(q), !.host = host,
                      !.resp = Some(Plain(status, msg)), !.end = "Denied"]]

\* lines 111-142: answer a request denied at admission
Deny(r, q, host, now, status, msg) ==
    /\ evidence_push(chrono_ts(now), "blocked", msg)
    /\ reqs' = [reqs EXCEPT ![r] =
            [@ EXCEPT !.pc = "done", !.req = Some(q), !.host = host,
                      !.pushed = Append(@, [kind |-> "blocked", msg |-> msg]),
                      !.resp = Some(Plain(status, msg)), !.end = "Denied"]]

Msg_policy_denied(reason) == <<"Vault-0 policy denied: ", reason>>
Msg_mcp_origin == <<"MCP server not in allowlist">>
Msg_mcp_ssrf == <<"MCP SSRF: private/internal target blocked">>
Msg_mcp_token == <<"Token passthrough disabled for MCP">>

\* lines 82-142: host resolution, policy admission, MCP gate
Admit(r, q, now) ==
    /\ reqs[r].pc = "idle"
    /\ \A k \in ReqIds : k < r => reqs[k].pc # "idle"
    /\ LET host == resolve_host(q.uri, IF "host" \in DOMAIN q.headers THEN q.headers["host"] ELSE <<>>)
           adm == admission(ProxyState.policy, host)
       IN  IF ~adm.allowed
           THEN Deny(r, q, host, now, 403, Msg_policy_denied(adm.deny_reason))
           ELSE IF is_mcp_request(host, q.uri.path) /\ ~origin_allowed(host)
           THEN Deny(r, q, host, now, 403, Msg_mcp_origin)
           ELSE IF is_mcp_request(host, q.uri.path)
                   /\ would_be_ssrf(unwrap_or(authority(q.uri), <<>>))
           THEN Deny(r, q, host, now, 403, Msg_mcp_ssrf)
           ELSE IF is_mcp_request(host, q.uri.path) /\ token_passthrough_disabled
                   /\ "authorization" \in DOMAIN q.headers
           THEN Deny(r, q, host, now, 400, Msg_mcp_token)
           ELSE /\ reqs' = [reqs EXCEPT ![r] =
                       [@ EXCEPT !.pc = "admitted", !.req = Some(q), !.host = host,
                                 !.after_lock = /\ ~IsSome(VAULT)
                                                /\ ret.op \in {"vault_lock", "vault_delete_file"}]]
                /\ UNCHANGED <<LOG, appended>>
    /\ UNCHANGED <<runVars, VAULT, file, ret, hist, ProxyState, wallet, PENDING, recorded>>

\* the request as it goes upstream
Outgoing(method, url, headers, body) ==
    [method |-> method, url |-> url, headers |-> headers, body |-> body]

\* lines 144-182: credential lookup, outgoing headers, first upstream send
Inject(r) ==
    /\ reqs[r].pc = "admitted"
    /\ LET q == Unwrap(reqs[r].req)
           target_url == build_full_uri(q.uri, reqs[r].host)
           inject_key == alias_for_host(reqs[r].host)
           auth_header == IF IsSome(inject_key) THEN ProxyState.vault[Unwrap(inject_key)]
                          ELSE NoneOpt
           oh == out_headers(q.headers, auth_header)
       IN  reqs' = [reqs EXCEPT ![r] =
               [@ EXCEPT !.pc = "forwarded", !.target_url = target_url,
                         !.auth_header = auth_header, !.out_headers = oh,
                         !.redact_patterns = ProxyState.policy.output_redact_patterns,
                         !.looked_up = IsSome(inject_key),
                         !.sent = <<Outgoing(q.method, target_url, oh, q.body)>>]]
    /\ UNCHANGED <<runVars, VAULT, file, ret, hist, ProxyState, wallet, LOG, appended, PENDING, recorded>>

\* the upstream's answer to a send: a response, or a transport error
Answer(resp) == Ok(resp)
TransportError == Err("Upstream error")

\* the evidence messages, as format! builds them
Msg_pending(intent, id) ==
    <<"402 pending ">> \o Digits(intent.amount_cents) \o <<" cents -> ">> \o intent.recipient
        \o <<" [">> \o id \o <<"]">>
Msg_settled(intent) ==
    <<"402 settled ">> \o Digits(intent.amount_cents) \o <<" cents -> ">> \o intent.recipient
Msg_allowed(method, url) == <<method, " ">> \o url

\* lines 278-290: the upstream's status and headers with the redacted body
relay(resp, patterns) == Response(resp.status, resp.headers, redact_body(resp.body, patterns))

\* a handler that answers the caller and goes on running
Finish_running(slot, resp, end) == [slot EXCEPT !.resp = Some(resp), !.end = end]

\* the request ends: the caller receives resp
Finish(slot, resp, end) == [slot EXCEPT !.pc = "done", !.resp = Some(resp), !.end = end]

\* lines 184-210 and 275-297: the first upstream answer arrives
Upstream(r, answer, now, walletReadOk) ==
    /\ reqs[r].pc = "forwarded"
    /\ LET slot == [reqs[r] EXCEPT !.upstream = Some(answer)]
           q == Unwrap(reqs[r].req)
       IN  IF ~answer.ok
           THEN /\ reqs' = [reqs EXCEPT ![r] =
                        Finish(slot, Plain(502, <<"Upstream error: ", answer.err>>), "BadGateway")]
                /\ UNCHANGED <<LOG, appended, PENDING, recorded>>
           ELSE IF answer.val.status # 402
           THEN /\ evidence_push(chrono_ts(now), "allowed", Msg_allowed(q.method, slot.target_url))
                /\ reqs' = [reqs EXCEPT ![r] =
                        Finish([slot EXCEPT !.pushed = Append(@,
                                    [kind |-> "allowed", msg |-> Msg_allowed(q.method, slot.target_url)])],
                               relay(answer.val, slot.redact_patterns), "Responded")]
                /\ UNCHANGED <<PENDING, recorded>>
           ELSE LET parsed == parse_402_required(answer.val.headers, answer.val.body) IN
                IF ~IsSome(parsed)
                THEN /\ reqs' = [reqs EXCEPT ![r] =
                            Finish(slot, relay(answer.val, slot.redact_patterns), "Responded")]
                     /\ UNCHANGED <<LOG, appended, PENDING, recorded>>
                ELSE LET intent == Unwrap(parsed)
                         id == pay_id(now)
                         info == get_wallet_info(wallet, walletReadOk)
                         auto == should_auto_settle(ProxyState.policy, intent)
                         noted == [slot EXCEPT
                                     !.intent = parsed,
                                     !.pended = Append(@, id),
                                     !.pushed = Append(@, [kind |-> "payment",
                                                           msg |-> Msg_pending(intent, id)]),
                                     !.decision = Some([auto_settle_402 |-> ProxyState.policy.auto_settle_402,
                                                        spend_cap_cents |-> ProxyState.policy.spend_cap_cents,
                                                        wallet_info |-> info])]
                     IN  /\ x402_record_pending(intent, id, as_secs(now))
                         /\ evidence_push(chrono_ts(now), "payment", Msg_pending(intent, id))
                         /\ reqs' = [reqs EXCEPT ![r] =
                                IF auto /\ info.ok /\ info.val.has_wallet
                                THEN [noted EXCEPT !.pc = "signing"]
                                ELSE Finish(noted, relay(answer.val, slot.redact_patterns),
                                            "Responded")]
    /\ UNCHANGED <<runVars, VAULT, file, ret, hist, ProxyState, wallet>>

\* lines 218-228: base64 of the JSON payload
x_payment(sig, intent) ==
    <<[scheme |-> "evm-eip3009", signature |-> sig, amount_cents |-> intent.amount_cents,
       recipient |-> intent.recipient, network |-> intent.network]>>

\* a retry rebuilt from the client's headers, without the injected credential
Sign_from_request(r, keychainOk, nonce) ==
    /\ reqs[r].pc = "signing"
    /\ LET slot == reqs[r]
           q == Unwrap(slot.req)
           intent == Unwrap(slot.intent)
           sig == sign_x402_payment(wallet, intent.amount_cents, intent.recipient,
                                    intent.network, keychainOk, nonce)
           retry_headers == [n \in DOMAIN q.headers \cup {"x-payment"} |->
                                IF n = "x-payment" THEN x_payment(sig.val, intent)
                                ELSE q.headers[n]]
       IN  reqs' = [reqs EXCEPT ![r] =
               IF ~sig.ok
               THEN Finish([slot EXCEPT !.sig = Some(sig)],
                           relay(Unwrap(slot.upstream).val, slot.redact_patterns), "Responded")
               ELSE [slot EXCEPT !.pc = "retrying", !.sig = Some(sig),
                                 !.sent = Append(@, Outgoing(q.method, slot.target_url,
                                                             retry_headers, q.body))]]
    /\ UNCHANGED <<runVars, VAULT, file, ret, hist, ProxyState, wallet, LOG, appended, PENDING, recorded>>

\* lines 211-241: the signature is back; on success the request is reissued
Sign(r, keychainOk, nonce) ==
    /\ reqs[r].pc = "signing"
    /\ LET slot == reqs[r]
           q == Unwrap(slot.req)
           intent == Unwrap(slot.intent)
           sig == sign_x402_payment(wallet, intent.amount_cents, intent.recipient,
                                    intent.network, keychainOk, nonce)
           retry_headers == [n \in DOMAIN slot.out_headers \cup {"x-payment"} |->
                                IF n = "x-payment" THEN x_payment(sig.val, intent)
                                ELSE slot.out_headers[n]]
       IN  reqs' = [reqs EXCEPT ![r] =
               IF ~sig.ok
               THEN Finish([slot EXCEPT !.sig = Some(sig)],
                           relay(Unwrap(slot.upstream).val, slot.redact_patterns), "Responded")
               ELSE [slot EXCEPT !.pc = "retrying", !.sig = Some(sig),
                                 !.sent = Append(@, Outgoing(q.method, slot.target_url,
                                                             retry_headers, q.body))]]
    /\ UNCHANGED <<runVars, VAULT, file, ret, hist, ProxyState, wallet, LOG, appended, PENDING, recorded>>

\* a success test that takes every status from 200 on
is_success_any(status) == status >= 200

\* StatusCode::is_success
is_success(status) == status >= 200 /\ status <= 299

\* lines 242-270 and 278-290: the answer to the retry arrives
RetryResult(r, answer, now) ==
    /\ reqs[r].pc = "retrying"
    /\ LET slot == reqs[r]
           intent == Unwrap(slot.intent)
       IN  IF answer.ok /\ is_success(answer.val.status)
           THEN /\ evidence_push(chrono_ts(now), "payment", Msg_settled(intent))
                /\ reqs' = [reqs EXCEPT ![r] =
                        Finish([slot EXCEPT !.pushed = Append(@, [kind |-> "payment",
                                                                  msg |-> Msg_settled(intent)]),
                                            !.retry = Some(answer)],
                               relay(answer.val, slot.redact_patterns), "Responded")]
           ELSE /\ reqs' = [reqs EXCEPT ![r] =
                        Finish([slot EXCEPT !.retry = Some(answer)],
                               relay(Unwrap(slot.upstream).val, slot.redact_patterns),
                               "Responded")]
                /\ UNCHANGED <<LOG, appended>>
    /\ UNCHANGED <<runVars, VAULT, file, ret, hist, ProxyState, wallet, PENDING, recorded>>

-----------------------------------------------------------------------------
(* proxy.rs: start, stop, is_running *)

MaxThreads == 2
MaxFlips == 4

ThreadIds == 1..MaxThreads

\* a caller between two calls; res is what its last call returned
Resting == [pc |-> "rest", was |-> FALSE, res |-> "none"]

\* a start that stores true without reading the previous value
start_store(t) ==
    /\ threads[t].pc = "rest"
    /\ Len(flips) < MaxFlips
    /\ RUNNING' = TRUE
    /\ threads' = [threads EXCEPT ![t] = [pc |-> "start", was |-> FALSE, res |-> "none"]]
    /\ flips' = Append(flips, "start")
    /\ UNCHANGED servers

\* line 53: RUNNING.swap(true), the previous value kept for the test
start_swap(t) ==
    /\ threads[t].pc = "rest"
    /\ Len(flips) < MaxFlips
    /\ RUNNING' = TRUE
    /\ threads' = [threads EXCEPT ![t] = [pc |-> "start", was |-> RUNNING, res |-> "none"]]
    /\ flips' = IF RUNNING THEN flips ELSE Append(flips, "start")
    /\ UNCHANGED servers

\* lines 53-71: AlreadyRunning when the swap returned true; otherwise the server
\* thread is spawned and start returns Ok
start_return(t) ==
    /\ threads[t].pc = "start"
    /\ threads' = [threads EXCEPT ![t] =
            [Resting EXCEPT !.res = IF threads[t].was THEN "AlreadyRunning" ELSE "Ok"]]
    /\ servers' = IF threads[t].was THEN servers
                  ELSE [servers EXCEPT !.spawned = @ + 1]
    /\ UNCHANGED <<RUNNING, flips>>

\* line 66: the spawned thread binds 127.0.0.1:3840 and serves, or panics on a port
\* that another server thread holds
server_bind ==
    /\ servers.spawned > 0
    /\ servers' = IF servers.listening = 0
                  THEN [spawned |-> servers.spawned - 1, listening |-> 1]
                  ELSE [servers EXCEPT !.spawned = @ - 1]
    /\ UNCHANGED <<RUNNING, threads, flips>>

\* line 75: RUNNING.swap(false)
stop_swap(t) ==
    /\ threads[t].pc = "rest"
    /\ Len(flips) < MaxFlips
    /\ RUNNING' = FALSE
    /\ threads' = [threads EXCEPT ![t] = [pc |-> "stop", was |-> RUNNING, res |-> "none"]]
    /\ flips' = IF RUNNING THEN Append(flips, "stop") ELSE flips
    /\ UNCHANGED servers

\* lines 75-78: NotRunning when the swap returned false, Ok otherwise
stop_return(t) ==
    /\ threads[t].pc = "stop"
    /\ threads' = [threads EXCEPT ![t] =
            [Resting EXCEPT !.res = IF threads[t].was THEN "Ok" ELSE "NotRunning"]]
    /\ UNCHANGED <<RUNNING, servers, flips>>

\* lines 44-46: RUNNING.load
is_running(t) ==
    /\ threads[t].pc = "rest"
    /\ threads' = [threads EXCEPT ![t] = [Resting EXCEPT !.res = IF RUNNING THEN "true" ELSE "false"]]
    /\ UNCHANGED <<RUNNING, servers, flips>>

-----------------------------------------------------------------------------
(* the control surface the proxy depends on *)

\* lib.rs set_secret
set_secret(alias, value) ==
    /\ ProxyState' = [ProxyState EXCEPT !.vault[alias] = Some(value)]
    /\ UNCHANGED <<runVars, VAULT, file, ret, hist, wallet, LOG, appended, PENDING, recorded, reqs>>

\* policy.rs save_policy; writeOk: the policy file could be written
save_policy(policy, writeOk) ==
    /\ IF writeOk THEN ProxyState' = [ProxyState EXCEPT !.policy = policy]
       ELSE UNCHANGED ProxyState
    /\ UNCHANGED <<runVars, VAULT, file, ret, hist, wallet, LOG, appended, PENDING, recorded, reqs>>

CreateWalletResult(info, recovery_phrase) == [info |-> info, recovery_phrase |-> recovery_phrase]

\* what the wallet commands leave alone
walletRest == <<runVars, VAULT, file, hist, ProxyState, LOG, appended, PENDING, recorded, reqs>>

\* a create_wallet that writes the phrase next to the address
create_wallet_phrase_on_disk(phrase, keychainOk, writeOk) ==
    /\ wallet' = IF ~keychainOk THEN wallet
                 ELSE IF ~writeOk THEN [wallet EXCEPT !.keychain = Some(phrase)]
                 ELSE [meta |-> Some(<<"mnemonic", phrase>>), keychain |-> Some(phrase)]
    /\ ret' = [op |-> "create_wallet", arg |-> <<>>,
               res |-> IF ~keychainOk THEN Err("keychain")
                       ELSE IF ~writeOk THEN Err("write wallet.json")
                       ELSE Ok(CreateWalletResult(WalletInfo(TRUE, address_of(phrase)), phrase))]
    /\ UNCHANGED walletRest

\* wallet.rs create_wallet; the keychain write comes first, then wallet.json
create_wallet(phrase, keychainOk, writeOk) ==
    /\ wallet' = IF ~keychainOk THEN wallet
                 ELSE IF ~writeOk THEN [wallet EXCEPT !.keychain = Some(phrase)]
                 ELSE [meta |-> Some(address_of(phrase)), keychain |-> Some(phrase)]
    /\ ret' = [op |-> "create_wallet", arg |-> <<>>,
               res |-> IF ~keychainOk THEN Err("keychain")
                       ELSE IF ~writeOk THEN Err("write wallet.json")
                       ELSE Ok(CreateWalletResult(WalletInfo(TRUE, address_of(phrase)), phrase))]
    /\ UNCHANGED walletRest

\* a string with whitespace around it, and str::trim
Padded(lead, body, trail) == [lead |-> lead, body |-> body, trail |-> trail]
trim(s) == s.body

\* the phrases MnemonicBuilder builds a signer from
MNEMONICS ==
    {"legal winner thank year wave sausage worth useful legal winner thank yellow",
     "letter advice cage absurd amount doctor acoustic avoid letter advice cage above"}

\* wallet.rs import_wallet: the phrase is trimmed and checked, then stored as
\* create_wallet stores it
import_wallet(mnemonic_phrase, keychainOk, writeOk) ==
    LET phrase == trim(mnemonic_phrase)
    IN  /\ wallet' = IF phrase \notin MNEMONICS \/ ~keychainOk THEN wallet
                     ELSE IF ~writeOk THEN [wallet EXCEPT !.keychain = Some(phrase)]
                     ELSE [meta |-> Some(address_of(phrase)), keychain |-> Some(phrase)]
        /\ ret' = [op |-> "import_wallet", arg |-> mnemonic_phrase,
                   res |-> IF phrase \notin MNEMONICS THEN Err("invalid mnemonic")
                           ELSE IF ~keychainOk THEN Err("keychain")
                           ELSE IF ~writeOk THEN Err("write wallet.json")
                           ELSE Ok(WalletInfo(TRUE, address_of(phrase)))]
        /\ UNCHANGED walletRest

\* load_mnemonic; keychainOk: the OS credential store answered
load_mnemonic(w, keychainOk) ==
    IF ~keychainOk \/ ~IsSome(w.keychain) THEN Err("keychain") ELSE Ok(Unwrap(w.keychain))

\* wallet.rs export_seed
export_seed(keychainOk) ==
    /\ ret' = [op |-> "export_seed", arg |-> <<>>, res |-> load_mnemonic(wallet, keychainOk)]
    /\ UNCHANGED <<wallet, walletRest>>

-----------------------------------------------------------------------------
(* the inputs of the runs *)

Str_api_openai_com == <<"a", "p", "i", ".">> \o Str_openai_com
Str_evil_example == <<"e", "v", "i", "l", ".", "e", "x", "a", "m", "p", "l", "e">>
Str_mcp_local == <<"m", "c", "p", ".", "l", "o", "c", "a", "l">>
Str_client_auth == Str_Bearer \o <<" ", "C", "L", "I", "E", "N", "T">>
Str_dot_com == <<".", "c", "o", "m">>
Str_slash == <<"/">>
Str_slash_mcp == <<"/", "m", "c", "p">>

OriginForm(path, host, auth) ==
    Request("POST", Uri(NoneOpt, NoneOpt, NoneOpt, path, NoneOpt),
            IF IsSome(auth) THEN [host |-> host, authorization |-> Unwrap(auth)]
            ELSE [host |-> host],
            "{}")

AbsoluteForm(host, path, auth) ==
    Request("POST", Uri(Some(Str_http), Some(host), NoneOpt, path, NoneOpt),
            IF IsSome(auth) THEN [host |-> host, authorization |-> Unwrap(auth)]
            ELSE [host |-> host],
            "{}")

AUTHS == {NoneOpt, Some(Str_client_auth)}

REQUESTS ==
    {OriginForm(Str_slash, h, a) : h \in {Str_api_openai_com, Str_evil_example, Str_mcp_local},
                                   a \in AUTHS}
    \cup {OriginForm(Str_slash_mcp, Str_localhost, a) : a \in AUTHS}
    \cup {AbsoluteForm(Str_127_0_0_1, Str_slash_mcp, a) : a \in AUTHS}

Str_sk == <<"s", "k", "-">>
Str_bad_value == <<"s", "k", "\n">>
PROXY_VALUES == {Str_sk_LIVE, Str_bad_value}

\* policies that differ in what admission reads, and policies that differ in what the
\* 402 path and the redaction read
REDACT == <<Pattern(FALSE, Str_sk), Pattern(TRUE, Str_sk)>>
CAPS == {NoneOpt, Some(100)}
POLICIES ==
    {Policy(allow, block, NoneOpt, <<>>, FALSE) :
        allow \in {{}, {Str_openai_com}}, block \in {{}, {Str_dot_com}}}
    \cup {Policy({}, {}, cap, REDACT, TRUE) : cap \in CAPS}
    \cup {Policy({}, {}, Some(100), REDACT, FALSE)}

Addr1 == <<"0", "x">> \o [i \in 1..39 |-> "0"] \o <<"1">>
Str_not_an_address == <<"n", "o", "n", "e">>

Demand(amount, recipient) ==
    JObj([amount_cents |-> JNum(amount), recipient |-> JStr(recipient),
          network |-> JStr(Str_base)])

\* the text of a JSON demand, for what the code searches in it
DemandText(amount, recipient) == <<"{">> \o Digits(amount) \o recipient \o Str_base \o <<"}">>

PaymentHeader(amount, recipient) ==
    <<Header(Str_payment_required, DemandText(amount, recipient), Some(Demand(amount, recipient)))>>

Str_secret_text == Str_sk \o <<"1">>

ANSWERS ==
    {Answer(Response(200, <<>>, TextBody(Str_secret_text))),
     Answer(Response(500, <<>>, TextBody(<<>>))),
     Answer(Response(402, <<>>, TextBody(<<>>))),
     Answer(Response(402, <<Header(<<"x">>, Str_402, Some(JNum(402)))>>, TextBody(<<>>))),
     Answer(Response(402, <<>>,
                     Body(TRUE, Some(JObj([payment_required |-> JBool(TRUE),
                                           amount_cents |-> JNum(50),
                                           recipient |-> JStr(Addr1)])), Str_secret_text))),
     Answer(Response(402, PaymentHeader(200, Addr1), TextBody(Str_secret_text))),
     Answer(Response(402, PaymentHeader(50, Str_not_an_address), TextBody(<<>>))),
     TransportError}

RETRY_ANSWERS ==
    {Answer(Response(200, <<>>, TextBody(Str_secret_text))),
     Answer(Response(402, <<>>, TextBody(<<>>))),
     TransportError}

CLOCK == {1700000123}
PHRASES == {"legal winner thank year wave sausage worth useful legal winner thank yellow"}
SIGN_NONCES == {"nonce32"}

-----------------------------------------------------------------------------
(* the state after construction *)

\* everything but the evidence log and the pending queue
InitRest ==
    /\ VAULT = NoneOpt
    /\ file = Absent
    /\ ret = [op |-> "none", arg |-> <<>>, res |-> Ok(<<>>)]
    /\ hist = NoHist
    /\ ProxyState = [vault |-> [a \in {"openai", "anthropic"} |-> NoneOpt],
                     policy |-> PolicyDefault]
    /\ wallet = NoWallet
    /\ reqs = [r \in ReqIds |-> Idle]
    /\ RUNNING = FALSE
    /\ servers = [spawned |-> 0, listening |-> 0]
    /\ threads = [t \in ThreadIds |-> Resting]
    /\ flips = <<>>
    /\ calls = [t \in ThreadIds |-> NoCall]
    /\ clock = 0

Init ==
    /\ InitRest
    /\ LOG = <<>>
    /\ PENDING = <<>>
    /\ appended = <<>>
    /\ recorded = <<>>

-----------------------------------------------------------------------------
(* the proxy with its control surface *)

ReceiveStep == \E r \in ReqIds, q \in REQUESTS, now \in CLOCK : Admit(r, q, now)
InjectStep == \E r \in ReqIds : Inject(r)
UpstreamStep ==
    \E r \in ReqIds, a \in ANSWERS, now \in CLOCK, readOk \in BOOLEAN : Upstream(r, a, now, readOk)
SignStep == \E r \in ReqIds, keychainOk \in BOOLEAN, n \in SIGN_NONCES : Sign(r, keychainOk, n)
RetryStep == \E r \in ReqIds, a \in RETRY_ANSWERS, now \in CLOCK : RetryResult(r, a, now)
SetSecret == \E v \in PROXY_VALUES : set_secret("openai", v)
SavePolicy == \E p \in POLICIES, writeOk \in BOOLEAN : save_policy(p, writeOk)
CreateWallet ==
    \E ph \in PHRASES, keychainOk \in BOOLEAN, writeOk \in BOOLEAN :
        create_wallet(ph, keychainOk, writeOk)

Next ==
    \/ ReceiveStep
    \/ InjectStep
    \/ UpstreamStep
    \/ SignStep
    \/ RetryStep
    \/ SetSecret
    \/ SavePolicy
    \/ CreateWallet

Spec == Init /\ [][Next]_vars

-----------------------------------------------------------------------------
(* the vault store on its own *)

VaultCreate ==
    /\ \E p \in PASSPHRASES, salt \in SALTS, n \in NONCES, w \in WRITES : vault_create(p, salt, n, w)
    /\ UNCHANGED <<proxyVars, runVars>>
VaultUnlock == (\E p \in PASSPHRASES : vault_unlock(p)) /\ UNCHANGED <<proxyVars, runVars>>
VaultLock == vault_lock /\ UNCHANGED <<proxyVars, runVars>>
VaultAddEntry ==
    /\ \E a \in ALIASES, v \in VALUES, pr \in PROVIDERS, t \in TIMES, n \in NONCES, w \in SEALS :
          vault_add_entry(a, v, pr, t, n, w)
    /\ UNCHANGED <<proxyVars, runVars>>
VaultDeleteEntry ==
    /\ \E a \in ALIASES, n \in NONCES, w \in SEALS : vault_delete_entry(a, n, w)
    /\ UNCHANGED <<proxyVars, runVars>>
VaultDeleteFile == (\E rmOk \in BOOLEAN : vault_delete_file(rmOk)) /\ UNCHANGED <<proxyVars, runVars>>
VaultGetSecret == (\E a \in ALIASES : vault_get_secret(a)) /\ UNCHANGED <<proxyVars, runVars>>
VaultListEntries == vault_list_entries /\ UNCHANGED <<proxyVars, runVars>>
VaultEncryptBytes ==
    /\ \E n \in NONCES, encOk \in BOOLEAN : encrypt_bytes_with_vault_key(<<"backup">>, n, encOk)
    /\ UNCHANGED <<proxyVars, runVars>>
VaultIsUnlocked == vault_is_unlocked /\ UNCHANGED <<proxyVars, runVars>>

NextVault ==
    \/ VaultCreate
    \/ VaultUnlock
    \/ VaultLock
    \/ VaultAddEntry
    \/ VaultDeleteEntry
    \/ VaultDeleteFile
    \/ VaultGetSecret
    \/ VaultListEntries
    \/ VaultEncryptBytes
    \/ VaultIsUnlocked

SpecVault == Init /\ [][NextVault]_vars

-----------------------------------------------------------------------------
(* the vault session next to the proxy: what the injection reads *)

OpenVault == vault_create(PassA, "salt1", "nonce1", "ok") /\ UNCHANGED <<proxyVars, runVars>>
StoreCredential ==
    /\ \E v \in VALUES, n \in NONCES : vault_add_entry("openai", v, "openai", "1700000000", n, "ok")
    /\ UNCHANGED <<proxyVars, runVars>>
CloseVault == vault_lock /\ UNCHANGED <<proxyVars, runVars>>
Call == \E r \in ReqIds, a \in AUTHS, now \in CLOCK : Admit(r, OriginForm(Str_slash, Str_api_openai_com, a), now)
Reply ==
    \E r \in ReqIds, a \in {x \in ANSWERS : x.ok => x.val.status # 402}, now \in CLOCK :
        Upstream(r, a, now, TRUE)

DropVault == vault_delete_file(TRUE) /\ UNCHANGED <<proxyVars, runVars>>

NextInjection ==
    \/ OpenVault
    \/ StoreCredential
    \/ CloseVault
    \/ DropVault
    \/ SetSecret
    \/ Call
    \/ InjectStep
    \/ Reply

SpecInjection == Init /\ [][NextInjection]_vars

-----------------------------------------------------------------------------
(* the MCP guard's SSRF test on its own *)

Str_port == <<":", "3", "8", "4", "0">>
Dotted(a, b, c, d) == Digits(a) \o <<".">> \o Digits(b) \o <<".">> \o Digits(c) \o <<".">> \o Digits(d)

\* IPv4 literals inside and outside every range the test reads, host names, and a
\* literal of three parts; each with and without a port
AUTHORITIES ==
    LET hosts == {Dotted(a, b, 0, d) : a \in {8, 10, 127, 169, 172, 192, 255},
                                       b \in {0, 15, 16, 31, 32, 168, 254, 255},
                                       d \in {1, 5}}
                 \cup {Dotted(255, 255, 255, 255), Str_localhost, Str_mcp_local,
                       <<"1", "0", ".", "0", ".", "5">>, <<>>}
    IN  hosts \cup {h \o Str_port : h \in hosts}

WouldBeSsrf ==
    /\ \E a \in AUTHORITIES : ret' = [op |-> "would_be_ssrf", arg |-> a, res |-> would_be_ssrf(a)]
    /\ UNCHANGED <<runVars, VAULT, file, hist, ProxyState, wallet, LOG, appended, PENDING, recorded, reqs>>

NextGuard ==
    \/ WouldBeSsrf

SpecGuard == Init /\ [][NextGuard]_vars

-----------------------------------------------------------------------------
(* concurrent callers of start, stop and is_running *)

restVars == <<VAULT, file, ret, hist, proxyVars, flightVars>>

StartSwap == (\E t \in ThreadIds : start_swap(t)) /\ UNCHANGED restVars
StartReturn == (\E t \in ThreadIds : start_return(t)) /\ UNCHANGED restVars
StopSwap == (\E t \in ThreadIds : stop_swap(t)) /\ UNCHANGED restVars
StopReturn == (\E t \in ThreadIds : stop_return(t)) /\ UNCHANGED restVars
IsRunning == (\E t \in ThreadIds : is_running(t)) /\ UNCHANGED restVars
ServerBind == server_bind /\ UNCHANGED restVars

NextRun ==
    \/ StartSwap
    \/ StartReturn
    \/ StopSwap
    \/ StopReturn
    \/ IsRunning
    \/ ServerBind

SpecRun == Init /\ [][NextRun]_vars

-----------------------------------------------------------------------------
(* Claims *)

\* the first upstream send of a request
FirstSend(r) == reqs[r].sent[1]

\* C1: when the handler forwards an admitted request whose host selects an alias, and
\* the vault session holds a value v for that alias, the request goes upstream with
\* Authorization: Bearer v
C1_InjectsSessionValue ==
    [][\A r \in ReqIds :
          (reqs[r].pc = "admitted" /\ reqs'[r].pc = "forwarded"
             /\ IsSome(alias_for_host(reqs[r].host))
             /\ vault_get_secret_result(Unwrap(alias_for_host(reqs[r].host))).ok) =>
            LET v == vault_get_secret_result(Unwrap(alias_for_host(reqs[r].host))).val
                h == reqs'[r].sent[1].headers
            IN  /\ "authorization" \in DOMAIN h
                /\ h["authorization"] = Str_Bearer \o <<" ">> \o v]_vars

\* C2: a forwarded request whose host selects an alias never carries the client's own
\* Authorization header upstream, whatever the credential store holds; a request whose
\* host selects no alias goes upstream with the client's headers unchanged
C2_ClientAuthorizationDropped ==
    \A r \in ReqIds :
        reqs[r].sent # <<>> =>
            LET q == Unwrap(reqs[r].req)
                h == FirstSend(r).headers
            IN  /\ (IsSome(alias_for_host(reqs[r].host)) /\ "authorization" \in DOMAIN q.headers) =>
                      ~("authorization" \in DOMAIN h /\ h["authorization"] = q.headers["authorization"])
                /\ ~IsSome(alias_for_host(reqs[r].host)) => h = q.headers

\* C3: the handler asks for a signature, or reissues the request with a payment, only
\* under a policy with auto_settle_402 set, a wallet, and a spend cap that is present
\* and not below the amount
C3_SignsOnlyUnderCap ==
    \A r \in ReqIds :
        (reqs[r].pc \in {"signing", "retrying"} \/ IsSome(reqs[r].sig) \/ Len(reqs[r].sent) > 1) =>
            LET d == Unwrap(reqs[r].decision)
                intent == Unwrap(reqs[r].intent)
            IN  /\ d.auto_settle_402
                /\ d.wallet_info.ok /\ d.wallet_info.val.has_wallet
                /\ IsSome(d.spend_cap_cents)
                /\ intent.amount_cents <= Unwrap(d.spend_cap_cents)

\* the reasons of a denial, with their statuses
DENIALS ==
    {Plain(403, Msg_policy_denied("domain blocked by policy")),
     Plain(403, Msg_policy_denied("domain not in allow list")),
     Plain(403, Msg_mcp_origin), Plain(403, Msg_mcp_ssrf), Plain(400, Msg_mcp_token)}

\* C4: a request denied at admission is answered with a 4xx status and the reason,
\* leaves exactly one blocked evidence entry that carries the reason, and is never
\* forwarded: no upstream send, no credential lookup, no pending payment, no allowed or
\* payment entry
C4_DeniedNeverForwarded ==
    \A r \in ReqIds :
        reqs[r].end = "Denied" =>
            /\ reqs[r].pc = "done"
            /\ Unwrap(reqs[r].resp) \in DENIALS
            /\ reqs[r].pushed = <<[kind |-> "blocked", msg |-> Unwrap(reqs[r].resp).body.text]>>
            /\ \E i \in 1..Len(LOG) :
                  LOG[i].kind = "blocked" /\ LOG[i].msg = Unwrap(reqs[r].resp).body.text
            /\ reqs[r].sent = <<>>
            /\ ~reqs[r].looked_up
            /\ reqs[r].pended = <<>>
            /\ ~IsSome(reqs[r].intent) /\ ~IsSome(reqs[r].sig)

\* a request with a client Authorization header denied by the MCP gate with a 400
C4_Witness ==
    \E r \in ReqIds :
        /\ reqs[r].end = "Denied"
        /\ Unwrap(reqs[r].resp) = Plain(400, Msg_mcp_token)
        /\ "authorization" \in DOMAIN Unwrap(reqs[r].req).headers
        /\ Len(LOG) = 1

\* the handler answered the request with a policy denial
PolicyDenied(slot) ==
    /\ slot.end = "Denied"
    /\ Head(Unwrap(slot.resp).body.text) = "Vault-0 policy denied: "

\* C5: the policy admits a request exactly when (the allow list is empty or the host
\* ends with one of its domains) and the host ends with no blocked domain; a block
\* match is answered "domain blocked by policy" even when an allow domain matches too,
\* and a host outside a non-empty allow list "domain not in allow list"
C5_Admission ==
    [][\A r \in ReqIds :
          (reqs[r].pc = "idle" /\ reqs'[r].pc # "idle") =>
            LET host == reqs'[r].host
                p == ProxyState.policy
                allow == p.allow_domains = {} \/ \E d \in p.allow_domains : EndsWith(host, d)
                block == \E d \in p.block_domains : EndsWith(host, d)
            IN  /\ ~PolicyDenied(reqs'[r]) <=> (allow /\ ~block)
                /\ block => Unwrap(reqs'[r].resp) =
                                Plain(403, Msg_policy_denied("domain blocked by policy"))
                /\ (~block /\ ~allow) => Unwrap(reqs'[r].resp) =
                                Plain(403, Msg_policy_denied("domain not in allow list"))]_vars

\* a host that ends with an allowed domain and with a blocked one, denied as blocked
C5_Witness ==
    /\ ProxyState.policy.allow_domains = {Str_openai_com}
    /\ ProxyState.policy.block_domains = {Str_dot_com}
    /\ \E r \in ReqIds :
          /\ reqs[r].host = Str_api_openai_com
          /\ reqs[r].end = "Denied"
          /\ Unwrap(reqs[r].resp) = Plain(403, Msg_policy_denied("domain blocked by policy"))

\* what get_secret(a) returns for an alias last added with the value o, or never
\* added or deleted since (o is none)
Expected(o) == IF IsSome(o) THEN Ok(Unwrap(o)) ELSE Err("No entry with alias")

\* C6: after create(P) and successful add_entry/delete_entry calls only, a lock()
\* followed by unlock(P) succeeds and restores a session in which get_secret(a) is the
\* last value added for every alias added and not deleted since, NotFound for the others
C6_RoundTrip ==
    (ret.op = "vault_unlock" /\ hist.clean /\ hist.locked /\ ret.arg = hist.pass) =>
        /\ ret.res.ok
        /\ IsSome(VAULT)
        /\ \A a \in ALIASES : vault_get_secret_result(a) = Expected(hist.last[a])

\* a session restored by unlock(P) after lock(), which holds the value added for one
\* alias and nothing for the other
C6_Witness ==
    /\ ret.op = "vault_unlock" /\ hist.clean /\ hist.locked /\ ret.arg = hist.pass
    /\ hist.last["openai"] = Some(Str_sk_NEXT)
    /\ hist.last["github"] = NoneOpt
    /\ find(Unwrap(VAULT).entries, "openai") # <<>>
    /\ Unwrap(VAULT).entries[1].value = Str_sk_NEXT

\* C7: the sealed file is absent, or a complete record that decrypts under a
\* passphrase, in every reachable state, a failed or interrupted write included
C7_SealedFileComplete ==
    \/ file.kind = "absent"
    \/ /\ file.kind = "record"
       /\ \E p \in PASSPHRASES :
             decrypt_entries(file.ciphertext, file.nonce, derive_key(p, file.salt)).ok


\* the evidence entries of kind allowed or blocked that a request left
Verdicts(r) == {i \in 1..Len(reqs[r].pushed) : reqs[r].pushed[i].kind \in {"allowed", "blocked"}}

\* C8: a request that ends without a 402 from upstream (denied at admission, answered
\* by upstream with another status, or failed in transport) leaves exactly one
\* evidence entry of kind allowed or blocked
C8_OneVerdictPerRequest ==
    \A r \in ReqIds :
        (reqs[r].pc = "done"
           /\ ~(IsSome(reqs[r].upstream) /\ Unwrap(reqs[r].upstream).ok
                  /\ Unwrap(reqs[r].upstream).val.status = 402)) =>
            Cardinality(Verdicts(r)) = 1

\* C9: every 402 answer of the upstream leaves at least one payment evidence entry and
\* one pending payment, whatever its headers and body
C9_Every402Recorded ==
    \A r \in ReqIds :
        (IsSome(reqs[r].upstream) /\ Unwrap(reqs[r].upstream).ok
           /\ Unwrap(reqs[r].upstream).val.status = 402) =>
            /\ \E i \in 1..Len(reqs[r].pushed) : reqs[r].pushed[i].kind = "payment"
            /\ Len(reqs[r].pended) = 1
            /\ PENDING # <<>>

\* the request ended on the auto-settle path: its 402 was parsed and the policy read
\* for it had auto_settle_402 set and no cap below the amount
AutoSettled(r) ==
    /\ reqs[r].pc = "done"
    /\ IsSome(reqs[r].decision)
    /\ Unwrap(reqs[r].decision).auto_settle_402
    /\ \/ ~IsSome(Unwrap(reqs[r].decision).spend_cap_cents)
       \/ Unwrap(reqs[r].intent).amount_cents <= Unwrap(Unwrap(reqs[r].decision).spend_cap_cents)

\* the retry was answered with a 2xx
RetrySucceeded(r) ==
    /\ IsSome(reqs[r].retry)
    /\ Unwrap(reqs[r].retry).ok
    /\ Unwrap(reqs[r].retry).val.status \in 200..299

\* the request left a "402 settled" entry
Settled(r) ==
    \E i \in 1..Len(reqs[r].pushed) :
        reqs[r].pushed[i] = [kind |-> "payment", msg |-> Msg_settled(Unwrap(reqs[r].intent))]

\* C10 as stated: on the auto-settle path a failed step hands the caller the original
\* 402 response, status, headers and body, with no settled entry; a settled entry is
\* written only when the retry returned a 2xx, and then the caller receives the
\* retry's status and headers
C10_FallbackIsOriginal402 ==
    \A r \in ReqIds :
        AutoSettled(r) =>
            /\ Settled(r) => RetrySucceeded(r)
            /\ RetrySucceeded(r) =>
                  /\ Unwrap(reqs[r].resp).status = Unwrap(reqs[r].retry).val.status
                  /\ Unwrap(reqs[r].resp).headers = Unwrap(reqs[r].retry).val.headers
            /\ ~RetrySucceeded(r) =>
                  /\ Unwrap(reqs[r].resp) = Unwrap(reqs[r].upstream).val
                  /\ ~Settled(r)

\* C10 amended: on the auto-settle path a failed step hands the caller the original
\* 402's status and headers with its body passed through the output redaction of the
\* policy, and no settled entry; a settled entry is written only when the retry
\* returned a 2xx, and then the caller receives the retry's status and headers with
\* its body redacted the same way
C10_FallbackIsRedacted402 ==
    \A r \in ReqIds :
        AutoSettled(r) =>
            /\ Settled(r) <=> RetrySucceeded(r)
            /\ RetrySucceeded(r) =>
                  /\ Unwrap(reqs[r].resp).status = Unwrap(reqs[r].retry).val.status
                  /\ Unwrap(reqs[r].resp).headers = Unwrap(reqs[r].retry).val.headers
                  /\ Unwrap(reqs[r].resp).body =
                        redact_body(Unwrap(reqs[r].retry).val.body, reqs[r].redact_patterns)
            /\ ~RetrySucceeded(r) =>
                  /\ Unwrap(reqs[r].resp).status = 402
                  /\ Unwrap(reqs[r].resp).headers = Unwrap(reqs[r].upstream).val.headers
                  /\ Unwrap(reqs[r].resp).body =
                        redact_body(Unwrap(reqs[r].upstream).val.body, reqs[r].redact_patterns)

\* a retry answered with a non-2xx: the caller has the 402 with a body the redaction
\* changed, and no settled entry
C10_Witness ==
    \E r \in ReqIds :
        /\ AutoSettled(r)
        /\ IsSome(reqs[r].retry)
        /\ Unwrap(reqs[r].retry).ok
        /\ Unwrap(reqs[r].retry).val.status = 402
        /\ Unwrap(reqs[r].resp).status = 402
        /\ Unwrap(reqs[r].resp).body # Unwrap(reqs[r].upstream).val.body
        /\ ~Settled(r)

\* C11: would_be_ssrf is false for the allowlisted MCP targets localhost and
\* 127.0.0.1, with or without a port, and true for every other IPv4 literal that is
\* private, loopback, link-local, broadcast or in 169.x
C11_SsrfSparesAllowlisted ==
    ret.op = "would_be_ssrf" =>
        LET host == SplitFirst(ret.arg, ":")
            ip == IpAddr_from_str(host)
        IN  /\ host \in {Str_localhost, Str_127_0_0_1} => ret.res = FALSE
            /\ (host # Str_127_0_0_1 /\ IsSome(ip) /\ is_private_or_internal(Unwrap(ip))) =>
                  ret.res = TRUE

\* C12: under every interleaving of start() and stop() calls, start() returns
\* AlreadyRunning exactly when the flag was true at its swap and stop() returns
\* NotRunning exactly when it was false, the successful starts and stops alternate
\* beginning with a start, the flag is true exactly after a successful start, and
\* is_running() returns the flag
C12_StartStopAlternate ==
    [][/\ \A i \in 1..Len(flips') : flips'[i] = IF i % 2 = 1 THEN "start" ELSE "stop"
       /\ RUNNING' = (Len(flips') % 2 = 1)
       /\ \A t \in ThreadIds :
             /\ (threads[t].pc = "rest" /\ threads'[t].pc = "start") =>
                   (flips' # flips) = ~RUNNING
             /\ (threads[t].pc = "rest" /\ threads'[t].pc = "stop") =>
                   (flips' # flips) = RUNNING
             /\ (threads[t].pc = "start" /\ threads'[t].pc = "rest") =>
                   threads'[t].res = IF threads[t].was THEN "AlreadyRunning" ELSE "Ok"
             /\ (threads[t].pc = "stop" /\ threads'[t].pc = "rest") =>
                   threads'[t].res = IF threads[t].was THEN "Ok" ELSE "NotRunning"
             /\ (threads[t].pc = "rest" /\ threads'[t].pc = "rest" /\ threads'[t] # threads[t]) =>
                   threads'[t].res = IF RUNNING THEN "true" ELSE "false"]_vars

\* a start that succeeded after a start and a stop, and a concurrent start that
\* failed with AlreadyRunning
C12_Witness ==
    /\ flips = <<"start", "stop", "start">>
    /\ RUNNING
    /\ \E t, u \in ThreadIds : threads[t].res = "Ok" /\ threads[u].res = "AlreadyRunning"

\* C13: an unlock that fails on a sealed file that exists reports the one error of a
\* failed decryption, whether the passphrase is wrong or the file is damaged, and a
\* failed unlock leaves the session and the file as they were
C13_UnlockFailsOpaque ==
    [][(ret'.op = "vault_unlock" /\ ~ret'.res.ok) =>
          /\ VAULT' = VAULT
          /\ file' = file
          /\ file.kind # "absent" => ret'.res = Err("Decryption failed. Wrong passphrase?")]_vars

\* the vault commands that need a session
NEED_SESSION ==
    {"vault_add_entry", "vault_list_entries", "vault_get_secret", "vault_delete_entry",
     "encrypt_bytes_with_vault_key"}

\* C14: a call of add_entry, list_entries, get_secret, delete_entry or
\* encrypt_with_vault_key made while no session exists fails with the Locked error
\* and changes neither the session nor the sealed file; is_unlocked() returns true
\* exactly when a session exists
C14_LockedWithoutSession ==
    [][/\ (ret' # ret /\ ret'.op \in NEED_SESSION /\ ~IsSome(VAULT)) =>
             /\ ret'.res = Err("Vault is locked")
             /\ VAULT' = VAULT
             /\ file' = file
       /\ (ret'.op \in NEED_SESSION /\ IsSome(VAULT)) => ret'.res # Err("Vault is locked")
       /\ ret'.op = "vault_is_unlocked" => ret'.res = IsSome(VAULT)]_vars

\* get_secret refused after a lock that followed a successful add_entry: the file
\* still holds the record and there is no session
C14_Witness ==
    /\ ret = [op |-> "vault_get_secret", arg |-> "openai", res |-> Err("Vault is locked")]
    /\ ~IsSome(VAULT)
    /\ file.kind = "record"
    /\ hist.clean /\ hist.locked /\ hist.last["openai"] = Some(Str_sk_LIVE)

\* C15: create with a passphrase shorter than 12 fails with the weak-passphrase error
\* and changes neither the sealed file nor the session; a create with a passphrase of
\* 12 or more that succeeds leaves a sealed file that holds the empty entry list under
\* the passphrase, and an unlocked session with no entries
C15_CreateNeedsTwelve ==
    [][ret'.op = "vault_create" =>
          /\ Len(ret'.arg) < 12 =>
                /\ ret'.res = Err("Passphrase must be at least 12 characters")
                /\ VAULT' = VAULT
                /\ file' = file
          /\ Len(ret'.arg) >= 12 =>
                /\ ret'.res # Err("Passphrase must be at least 12 characters")
                /\ ret'.res.ok =>
                      /\ file'.kind = "record"
                      /\ decrypt_entries(file'.ciphertext, file'.nonce,
                                         derive_key(ret'.arg, file'.salt)) = Ok(<<>>)
                      /\ VAULT' = Some(VaultState(<<>>, derive_key(ret'.arg, file'.salt)))]_vars

\* a create with a short passphrase refused while a session with an entry is open
C15_Witness ==
    /\ ret = [op |-> "vault_create", arg |-> PassShort,
              res |-> Err("Passphrase must be at least 12 characters")]
    /\ IsSome(VAULT)
    /\ Len(Unwrap(VAULT).entries) = 1
    /\ file.kind = "record"

\* C16: no two entries of a session share an alias, in every reachable state; an
\* add_entry leaves exactly one entry with its alias, the entry it appended, and does
\* not grow the session when the alias was there before
C16_AliasesUnique ==
    [][/\ IsSome(VAULT') =>
             \A i, j \in 1..Len(Unwrap(VAULT').entries) :
                Unwrap(VAULT').entries[i].alias = Unwrap(VAULT').entries[j].alias => i = j
       /\ (ret'.op = "vault_add_entry" /\ IsSome(VAULT)) =>
             LET old == Unwrap(VAULT).entries
                 new == Unwrap(VAULT').entries
             IN  /\ new[Len(new)].alias = ret'.arg
                 /\ find(new, ret'.arg) = <<new[Len(new)]>>
                 /\ Len(new) = IF find(old, ret'.arg) = <<>> THEN Len(old) + 1 ELSE Len(old)]_vars

\* a session of two entries after an add_entry that put the newer value of its alias
\* behind the entry of the other alias
C16_Witness ==
    /\ ret = [op |-> "vault_add_entry", arg |-> "openai", res |-> Ok(<<>>)]
    /\ IsSome(VAULT)
    /\ Len(Unwrap(VAULT).entries) = 2
    /\ Unwrap(VAULT).entries[1].alias = "github"
    /\ Unwrap(VAULT).entries[2].value = Str_sk_NEXT
    /\ hist.last["openai"] = Some(Str_sk_NEXT)

-----------------------------------------------------------------------------
(* the listing of a session: values of every shape the preview distinguishes *)

Str_stars == <<"*", "*", "*", "*">>
Str_sk_1 == <<"s", "k", "-", "1">>
Str_abcdef == <<"a", "b", "c", "d", "e", "f">>
Str_abc_dots_xyz == <<"a", "b", "c", ".", ".", ".", "x", "y", "z">>
LISTED == {Str_stars, Str_sk_1, Str_abcdef, Str_abc_dots_xyz, Str_sk_LIVE}

StoreListed ==
    /\ \E a \in ALIASES, v \in LISTED : vault_add_entry(a, v, "openai", "1700000000", "nonce1", "ok")
    /\ UNCHANGED <<proxyVars, runVars>>

NextListing ==
    \/ OpenVault
    \/ StoreListed
    \/ VaultDeleteEntry
    \/ VaultListEntries
    \/ VaultGetSecret
    \/ CloseVault

SpecListing == Init /\ [][NextListing]_vars

\* the session's entries at the time of the last call's return
Listed == IF IsSome(VAULT) THEN Unwrap(VAULT).entries ELSE <<>>

\* the last call returned the information of the session's entries, one per entry
ListingReturned ==
    /\ ret.op = "vault_list_entries"
    /\ ret.res.ok
    /\ Len(ret.res.val) = Len(Listed)

\* only get_secret returns the value of an entry, and it returns the value of the
\* entry of the alias it was asked for
OnlyGetSecretReturnsValue ==
    /\ ret.op \in {"vault_create", "vault_lock", "vault_add_entry", "vault_delete_entry"} =>
          \A i \in 1..Len(Listed) : ret.res # Ok(Listed[i].value)
    /\ (ret.op = "vault_get_secret" /\ ret.res.ok) =>
          \E i \in 1..Len(Listed) : Listed[i].alias = ret.arg /\ ret.res.val = Listed[i].value

\* the preview the listing gives: four stars up to 6 characters, else the first 3
\* characters, an ellipsis and the last 3
PreviewRule(i) ==
    LET v == Listed[i].value
        p == ret.res.val[i].preview
    IN  /\ Len(v) <= 6 => p = Str_stars
        /\ Len(v) > 6 => /\ Len(p) = 9
                         /\ SubSeq(p, 1, 3) = SubSeq(v, 1, 3)
                         /\ SubSeq(p, 4, 6) = <<".", ".", ".">>
                         /\ SubSeq(p, 7, 9) = SubSeq(v, Len(v) - 2, Len(v))

-----------------------------------------------------------------------------
(* the wallet commands on their own *)

Str_unknown_net == <<"o", "p", "t", "i", "m", "i", "s", "m">>
IMPORTS ==
    {Padded(" ", "letter advice cage absurd amount doctor acoustic avoid letter advice cage above", "\n"),
     Padded("", "legal winner thank year wave sausage worth useful legal winner thank yellow", ""),
     Padded(" ", "legal winner", "")}

WALLET_NONCES == {"nonce32", "nonce33"}

ImportWallet ==
    \E ph \in IMPORTS, keychainOk \in BOOLEAN, writeOk \in BOOLEAN : import_wallet(ph, keychainOk, writeOk)
GetWalletInfo ==
    /\ \E readOk \in BOOLEAN :
          ret' = [op |-> "get_wallet_info", arg |-> <<>>, res |-> get_wallet_info(wallet, readOk)]
    /\ UNCHANGED <<wallet, walletRest>>
ExportSeed == \E keychainOk \in BOOLEAN : export_seed(keychainOk)
SignPayment ==
    /\ \E amount \in {1, 50}, recipient \in {Addr1, Str_not_an_address},
          network \in {Str_base, Str_base_sepolia, Str_unknown_net}, keychainOk \in BOOLEAN,
          nonce \in WALLET_NONCES :
          ret' = [op |-> "sign_x402_payment", arg |-> recipient,
                  res |-> sign_x402_payment(wallet, amount, recipient, network, keychainOk, nonce)]
    /\ UNCHANGED <<wallet, walletRest>>

NextWallet ==
    \/ CreateWallet
    \/ ImportWallet
    \/ GetWalletInfo
    \/ ExportSeed
    \/ SignPayment

SpecWallet == Init /\ [][NextWallet]_vars

ADDRESSES == {address_of(p) : p \in MNEMONICS}

\* C18: the recovery phrase is kept in the OS credential store only: wallet.json holds
\* the address of a phrase and never a phrase, and of the wallet commands only
\* create_wallet and export_seed return the phrase; import_wallet and get_wallet_info
\* return the wallet's information, sign_x402_payment a signature, and no error carries
\* the phrase
C18_PhraseOnlyInKeychain ==
    /\ IsSome(wallet.meta) => Unwrap(wallet.meta) \in ADDRESSES
    /\ IsSome(wallet.keychain) => Unwrap(wallet.keychain) \in MNEMONICS
    /\ ~ret.res.ok => ret.res.err \notin MNEMONICS
    /\ (ret.op \in {"import_wallet", "get_wallet_info"} /\ ret.res.ok) =>
          ret.res.val \in {WalletInfo(b, a) : b \in BOOLEAN, a \in ADDRESSES \cup {<<>>}}
    /\ (ret.op = "sign_x402_payment" /\ ret.res.ok) =>
          /\ DOMAIN ret.res.val = {"from", "to", "value", "chainId", "nonce"}
          /\ ret.res.val.from \in ADDRESSES
          /\ ret.res.val.to = parse_address(ret.arg).val
          /\ ret.res.val.nonce \in WALLET_NONCES
    /\ (ret.op = "create_wallet" /\ ret.res.ok) =>
          /\ ret.res.val.recovery_phrase = Unwrap(wallet.keychain)
          /\ ret.res.val.info = WalletInfo(TRUE, Unwrap(wallet.meta))
    /\ (ret.op = "export_seed" /\ ret.res.ok) => ret.res.val = Unwrap(wallet.keychain)

\* a wallet was imported from a padded phrase over a created one, and signs
C18_Witness ==
    /\ ret.op = "sign_x402_payment"
    /\ ret.res.ok
    /\ wallet.keychain = Some("letter advice cage absurd amount doctor acoustic avoid letter advice cage above")
    /\ wallet.meta = Some(address_of("legal winner thank year wave sausage worth useful legal winner thank yellow"))

-----------------------------------------------------------------------------
(* the evidence log on its own, from a log that earlier pushes filled to just under
   its capacity *)

MaxPushes == 3
KINDS == <<"allowed", "blocked", "payment", "info">>
EarlierPushes == LOG_CAP - 2
PUSH_CLOCK == {1700000000, 1700000999}

\* the entries of the first EarlierPushes pushes, one each millisecond
Earlier ==
    [i \in 1..EarlierPushes |->
        [ts |-> chrono_ts(1699990000 + i), kind |-> KINDS[(i % 4) + 1], msg |-> <<"entry">>]]

InitEvidence ==
    /\ InitRest
    /\ LOG = Earlier
    /\ appended = Earlier
    /\ PENDING = <<>>
    /\ recorded = <<>>

\* a pusher reads the clock on its own and appends under the write lock; pushers that
\* run together append in the order they take the lock, whatever their clock readings
EvidencePush ==
    /\ Len(appended) < EarlierPushes + MaxPushes
    /\ \E k \in 1..4, now \in PUSH_CLOCK :
          evidence_push(chrono_ts(now), KINDS[k], <<"entry">>)
    /\ ret' = [op |-> "push", arg |-> <<>>, res |-> Ok(<<>>)]
    /\ UNCHANGED <<runVars, VAULT, file, hist, ProxyState, wallet, PENDING, recorded, reqs>>
GetEvidenceLog ==
    /\ ret' = [op |-> "get_evidence_log", arg |-> <<>>, res |-> get_evidence_log(LOG)]
    /\ UNCHANGED <<runVars, VAULT, file, hist, proxyVars>>
GetEvidenceStats ==
    /\ ret' = [op |-> "get_evidence_stats", arg |-> <<>>, res |-> get_evidence_stats(LOG)]
    /\ UNCHANGED <<runVars, VAULT, file, hist, proxyVars>>

NextEvidence ==
    \/ EvidencePush
    \/ GetEvidenceLog
    \/ GetEvidenceStats

SpecEvidence == InitEvidence /\ [][NextEvidence]_vars

Min(a, b) == IF a <= b THEN a ELSE b

\* the last n elements of a sequence
LastOf(s, n) == SubSeq(s, Len(s) - n + 1, Len(s))

\* C19: the evidence log holds at most 500 entries, get_log returns the most recent
\* min(n, 500) of the n pushed entries in the order they were appended, and get_stats
\* gives that length as total, with allowed + blocked + payment at most total
C19_LogIsLastFiveHundred ==
    /\ Len(LOG) <= 500
    /\ LOG = LastOf(appended, Min(Len(appended), 500))
    /\ ret.op = "get_evidence_log" =>
          ret.res = Ok(LastOf(appended, Min(Len(appended), 500)))
    /\ ret.op = "get_evidence_stats" =>
          /\ ret.res.ok
          /\ ret.res.val.total = Min(Len(appended), 500)
          /\ ret.res.val.allowed + ret.res.val.blocked + ret.res.val.payment <= ret.res.val.total

\* the oldest entry was dropped, and the log read back begins at the second push
C19_Witness ==
    /\ Len(appended) = 501
    /\ ret.op = "get_evidence_log"
    /\ Len(ret.res.val) = 500
    /\ ret.res.val[1] = appended[2]
    /\ ret.res.val[500] = appended[501]
    /\ ret.res.val[500].ts = <<"1", "7", "0", "0", "0", "0", "0", ".", "0", "0", "0">>

-----------------------------------------------------------------------------
(* the pending queue on its own, from a queue that the payment demands of earlier
   requests filled to just under its capacity *)

MaxRecords == 3
EarlierRecords == PENDING_CAP - 2
INTENTS == {ZeroIntent, PaymentIntent(50, Addr1, Str_base, NoneOpt)}

EarlierPending ==
    [i \in 1..EarlierRecords |->
        [id |-> pay_id(1699990000 + i), intent |-> ZeroIntent, ts |-> as_secs(1699990000 + i)]]

InitPending ==
    /\ InitRest
    /\ LOG = <<>>
    /\ appended = <<>>
    /\ PENDING = EarlierPending
    /\ recorded = EarlierPending

\* a request reads the clock on its own and appends under the write lock; requests in
\* flight together record in the order they take the lock; the call returns the id
RecordPending ==
    /\ Len(recorded) < EarlierRecords + MaxRecords
    /\ \E intent \in INTENTS, now \in PUSH_CLOCK :
          /\ x402_record_pending(intent, pay_id(now), as_secs(now))
          /\ ret' = [op |-> "record_pending", arg |-> intent, res |-> pay_id(now)]
    /\ UNCHANGED <<runVars, VAULT, file, hist, ProxyState, wallet, LOG, appended, reqs>>
GetPending402 ==
    /\ ret' = [op |-> "get_pending_402", arg |-> <<>>, res |-> get_pending_402(PENDING)]
    /\ UNCHANGED <<runVars, VAULT, file, hist, proxyVars>>

NextPending ==
    \/ RecordPending
    \/ GetPending402

SpecPending == InitPending /\ [][NextPending]_vars

\* C20: the pending queue holds at most 100 payments, the most recent min(n, 100) of
\* the n recorded intents in the order they were recorded; the oldest is dropped first
C20_PendingIsLastHundred ==
    /\ Len(PENDING) <= 100
    /\ PENDING = LastOf(recorded, Min(Len(recorded), 100))
    /\ ret.op = "record_pending" =>
          /\ PENDING[Len(PENDING)].id = ret.res
          /\ PENDING[Len(PENDING)].intent = ret.arg
    /\ ret.op = "get_pending_402" => ret.res = Ok(LastOf(recorded, Min(Len(recorded), 100)))

\* the oldest payment was dropped, and the queue read back begins at the second
C20_Witness ==
    /\ Len(recorded) = 101
    /\ ret.op = "get_pending_402"
    /\ Len(ret.res.val) = 100
    /\ ret.res.val[1] = recorded[2]
    /\ ret.res.val[100] = recorded[101]
    /\ ret.res.val[100].intent.amount_cents = 50
    /\ ret.res.val[99].id = pay_id(1700000999)
    /\ ret.res.val[100].id = pay_id(1700000000)

-----------------------------------------------------------------------------
(* the receipt export on its own: a pure function of the entries it is given *)

MaxEntries == 3
Str_blocked == <<"b", "l", "o", "c", "k", "e", "d">>
Str_allowed == <<"a", "l", "l", "o", "w", "e", "d">>
RECEIPT_ENTRIES ==
    {<<<<"1", ".", "0", "0", "0">>, Str_blocked, <<"d", "e", "n", "y">>>>,
     <<<<"1", ".", "0", "0", "0">>, Str_allowed, <<"G", "E", "T">>>>,
     <<<<"2", ".", "0", "0", "0">>, Str_allowed, <<"G", "E", "T">>>>,
     <<<<"2", ".", "5", "0", "0">>, Str_allowed, <<"P", "U", "T">>>>,
     <<<<"3", ".", "0", "0", "0">>, <<"p", "a", "y", "m", "e", "n", "t">>, <<"5", "0">>>>}
RECEIPT_INPUTS == UNION {[1..n -> RECEIPT_ENTRIES] : n \in 0..MaxEntries}

ExportReceipt ==
    /\ \E entries \in RECEIPT_INPUTS :
          ret' = [op |-> "export_receipt", arg |-> entries, res |-> export_receipt(entries)]
    /\ UNCHANGED <<runVars, VAULT, file, hist, proxyVars>>

NextReceipt == ExportReceipt

SpecReceipt == Init /\ [][NextReceipt]_vars

\* C21: the receipt export is hash-chained: of two exports of lists of the same length
\* that differ in an entry, every later entry of the second has a hash that differs
\* from the hash at the same place in the first
C21_ReceiptHashChained ==
    [][(/\ ret.op = "export_receipt"
        /\ ret'.op = "export_receipt"
        /\ Len(ret.arg) = Len(ret'.arg))
       => \A i \in 1..Len(ret.arg) :
             ret.arg[i] # ret'.arg[i] =>
                \A j \in (i + 1)..Len(ret.arg) : ret.res.val[j].hash # ret'.res.val[j].hash]_vars

-----------------------------------------------------------------------------
(* vault commands running on several threads: create and unlock touch the file before
   they take the session's lock; lock, add_entry and delete_entry run under it *)

raceRest == <<proxyVars, startVars, clock>>

CreateWrite ==
    /\ \E t \in ThreadIds, p \in {PassA, PassB}, salt \in SALTS : vault_create_write(t, p, salt, "nonce1")
    /\ UNCHANGED raceRest
UnlockRead ==
    /\ \E t \in ThreadIds, p \in {PassA, PassB} : vault_unlock_read(t, p)
    /\ UNCHANGED raceRest
Install == (\E t \in ThreadIds : vault_install(t)) /\ UNCHANGED raceRest
LockedAdd ==
    /\ \E t \in ThreadIds : calls[t] = NoCall
    /\ \E a \in ALIASES : vault_add_entry(a, Str_sk_LIVE, "openai", "1700000000", "nonce2", "ok")
    /\ UNCHANGED <<raceRest, calls>>
LockedDelete ==
    /\ \E t \in ThreadIds : calls[t] = NoCall
    /\ \E a \in ALIASES : vault_delete_entry(a, "nonce2", "ok")
    /\ UNCHANGED <<raceRest, calls>>
LockedLock ==
    /\ \E t \in ThreadIds : calls[t] = NoCall
    /\ vault_lock
    /\ UNCHANGED <<raceRest, calls>>

NextRace ==
    \/ CreateWrite
    \/ UnlockRead
    \/ Install
    \/ LockedAdd
    \/ LockedDelete
    \/ LockedLock

SpecRace == Init /\ [][NextRace]_vars

\* C22: once every vault operation has returned, an unlocked session next to a sealed
\* file means that the file's ciphertext was made under the key its salt derives, and
\* that it decrypts under the session's key to the session's entries
C22_FileMatchesSessionAtRest ==
    (/\ \A t \in ThreadIds : calls[t] = NoCall
     /\ IsSome(VAULT)
     /\ file.kind = "record")
    => /\ file.ciphertext.k[2] = file.salt
       /\ decrypt_entries(file.ciphertext, file.nonce, Unwrap(VAULT).derived_key)
             = Ok(Unwrap(VAULT).entries)

\* C23: a request received after vault_lock or vault_delete_file has returned, and
\* forwarded while the vault is still without a session, goes upstream with no injected
\* credential
C23_NoInjectionAfterLock ==
    [][\A r \in ReqIds :
          (/\ reqs[r].pc = "admitted"
           /\ reqs'[r].pc = "forwarded"
           /\ reqs[r].after_lock
           /\ ~IsSome(VAULT)
           /\ ret.op \in {"vault_lock", "vault_delete_file"})
          => /\ ~IsSome(reqs'[r].auth_header)
             /\ \A i \in 1..Len(reqs'[r].sent) :
                   "authorization" \in DOMAIN reqs'[r].sent[i].headers =>
                      /\ "authorization" \in DOMAIN Unwrap(reqs[r].req).headers
                      /\ reqs'[r].sent[i].headers["authorization"]
                            = Unwrap(reqs[r].req).headers["authorization"]]_vars

-----------------------------------------------------------------------------
(* admission and the first send on their own, over requests of every form the
   handler resolves a host from *)

\* an origin-form request with no Host header (HTTP/1.0)
NoHostForm(path, auth) ==
    Request("POST", Uri(NoneOpt, NoneOpt, NoneOpt, path, NoneOpt),
            IF IsSome(auth) THEN [authorization |-> Unwrap(auth)] ELSE <<>>,
            "{}")

Str_LocalHost == <<"L", "o", "c", "a", "l", "H", "o", "s", "t">>
Str_slash_MCP == <<"/", "v", "1", "/", "M", "C", "P">>

ROUTED ==
    REQUESTS
    \cup {NoHostForm(p, a) : p \in {Str_slash, Str_slash_mcp}, a \in AUTHS}
    \cup {OriginForm(Str_slash_MCP, h, a) :
             h \in {Str_LocalHost, Str_127_0_0_1, Str_api_openai_com, Str_127_0_0_1 \o Str_port},
             a \in AUTHS}

ROUTING_POLICIES ==
    {Policy(allow, block, NoneOpt, <<>>, FALSE) :
        allow \in {{}, {Str_openai_com}}, block \in {{}, {Str_localhost}, {Str_dot_com}}}
    \cup {Policy({}, {Str_dot_com}, NoneOpt, REDACT, FALSE)}

Route == \E r \in ReqIds, q \in ROUTED, now \in CLOCK : Admit(r, q, now)
SetRoutingPolicy == \E p \in ROUTING_POLICIES : save_policy(p, TRUE)

NextRouting ==
    \/ Route
    \/ InjectStep
    \/ SetSecret
    \/ SetRoutingPolicy

SpecRouting == Init /\ [][NextRouting]_vars

\* the host of an absolute URL: what follows "://", up to the first ":", "/" or "?"
RECURSIVE UpTo(_, _)
UpTo(s, stops) == IF s = <<>> \/ Head(s) \in stops THEN <<>> ELSE <<Head(s)>> \o UpTo(Tail(s), stops)
RECURSIVE AfterSep(_)
AfterSep(url) ==
    IF Len(url) < 3 THEN <<>>
    ELSE IF SubSeq(url, 1, 3) = Str_sep THEN SubSeq(url, 4, Len(url))
    ELSE AfterSep(Tail(url))
UrlHost(url) == UpTo(AfterSep(url), {":", "/", "?"})

\* C24: every request sent upstream goes to the host that admission, the MCP gate and
\* the alias lookup were given
C24_UpstreamHostIsCheckedHost ==
    \A r \in ReqIds :
        \A i \in 1..Len(reqs[r].sent) : UrlHost(reqs[r].sent[i].url) = reqs[r].host

\* the request of slot r is MCP-classified: its host or its path contains "mcp"
McpClassified(r) ==
    /\ IsSome(reqs[r].req)
    /\ is_mcp_request(reqs[r].host, Unwrap(reqs[r].req).uri.path)

\* C25: an MCP-classified request is never sent upstream with an Authorization header,
\* the client's or one taken from the credential store, on its first send or on the
\* retry with a payment, and each one sent has the host localhost or 127.0.0.1
C25_McpCarriesNoAuthorization ==
    \A r \in ReqIds :
        (McpClassified(r) /\ reqs[r].sent # <<>>) =>
            /\ \A i \in 1..Len(reqs[r].sent) : "authorization" \notin DOMAIN reqs[r].sent[i].headers
            /\ ~IsSome(reqs[r].auth_header)
            /\ "authorization" \notin DOMAIN Unwrap(reqs[r].req).headers
            /\ ToLower(reqs[r].host) \in {Str_localhost, Str_127_0_0_1}

\* an MCP request to localhost went upstream twice, the second time with a payment,
\* while the credential store held a value
C25_Witness ==
    \E r \in ReqIds :
        /\ McpClassified(r)
        /\ reqs[r].host = Str_localhost
        /\ Len(reqs[r].sent) = 2
        /\ "x-payment" \in DOMAIN reqs[r].sent[2].headers
        /\ IsSome(ProxyState.vault["openai"])

\* C26: admission applies the policy, then the MCP origin allowlist, then the SSRF
\* test, then the token test, and the first that fails gives the answer: a policy
\* failure is a 403 with the policy's reason, also for an MCP-classified host; an
\* MCP-classified request the policy admits is answered 403 "MCP server not in
\* allowlist" for an origin off the allowlist, else 403 for an SSRF target, else 400
\* "Token passthrough disabled for MCP" with an Authorization header; an
\* MCP-classified request to localhost or 127.0.0.1 without Authorization is forwarded
C26_FirstFailingCheckAnswers ==
    [][\A r \in ReqIds :
          (reqs[r].pc = "idle" /\ reqs'[r].pc # "idle") =>
              LET slot == reqs'[r]
                  q == Unwrap(slot.req)
                  adm == admission(ProxyState.policy, slot.host)
                  mcp == is_mcp_request(slot.host, q.uri.path)
                  listed == origin_allowed(slot.host)
                  ssrf == would_be_ssrf(unwrap_or(authority(q.uri), <<>>))
                  auth == "authorization" \in DOMAIN q.headers
                  denied(status, msg) == slot.end = "Denied" /\ slot.resp = Some(Plain(status, msg))
              IN  /\ ~adm.allowed => denied(403, Msg_policy_denied(adm.deny_reason))
                  /\ (adm.allowed /\ mcp /\ ~listed) => denied(403, Msg_mcp_origin)
                  /\ (adm.allowed /\ mcp /\ listed /\ ssrf) => denied(403, Msg_mcp_ssrf)
                  /\ (adm.allowed /\ mcp /\ listed /\ ~ssrf /\ auth) => denied(400, Msg_mcp_token)
                  /\ (adm.allowed /\ mcp /\ ~auth
                        /\ ToLower(slot.host) \in {Str_localhost, Str_127_0_0_1}) =>
                        slot.pc = "admitted"
                  /\ (adm.allowed /\ ~mcp) => slot.pc = "admitted"]_vars

\* C27: a request is admitted and redacted under one snapshot of the policy: the
\* policy whose redact patterns the handler takes for a request is a policy that
\* admits the request's host
C27_RedactedUnderAdmittingPolicy ==
    [][\A r \in ReqIds :
          (reqs[r].pc = "admitted" /\ reqs'[r].pc = "forwarded") =>
              /\ reqs'[r].redact_patterns = ProxyState.policy.output_redact_patterns
              /\ admission(ProxyState.policy, reqs[r].host).allowed]_vars

-----------------------------------------------------------------------------
(* the process-wide locks: what each operation acquires, releases and awaits, in the
   order of its code.  An instruction is <<"read", L>>, <<"write", L>>,
   <<"release", L>> or <<"await", what>> *)

Acquire(mode, lock) == <<<<mode, lock>>, <<"release", lock>>>>

\* a handler that still holds the policy guard when it pushes the denial
proxy_handler_holding(path) ==
    LET admit == Acquire("read", "STATE")
        lookup == Acquire("read", "STATE")
        send == <<<<"await", "body">>, <<"await", "send">>>>
        bytes == <<<<"await", "bytes">>>>
    IN  CASE path = "denied" -> <<<<"read", "STATE">>>> \o Acquire("write", "LOG") \o <<<<"release", "STATE">>>>
          [] path = "upstream error" -> admit \o lookup \o send
          [] path = "allowed" -> admit \o lookup \o send \o bytes \o Acquire("write", "LOG")
          [] path = "pending" ->
                admit \o lookup \o send \o bytes \o Acquire("write", "PENDING")
                    \o Acquire("write", "LOG") \o Acquire("read", "STATE")
          [] path = "settled" ->
                admit \o lookup \o send \o bytes \o Acquire("write", "PENDING")
                    \o Acquire("write", "LOG") \o Acquire("read", "STATE")
                    \o <<<<"await", "sign">>, <<"await", "retry">>>> \o Acquire("write", "LOG")
                    \o <<<<"await", "retry bytes">>>>

\* proxy.rs proxy_handler, by the path a request takes through it
proxy_handler_locks(path) ==
    LET admit == Acquire("read", "STATE")
        lookup == Acquire("read", "STATE")
        send == <<<<"await", "body">>, <<"await", "send">>>>
        bytes == <<<<"await", "bytes">>>>
    IN  CASE path = "denied" -> admit \o Acquire("write", "LOG")
          [] path = "upstream error" -> admit \o lookup \o send
          [] path = "allowed" -> admit \o lookup \o send \o bytes \o Acquire("write", "LOG")
          [] path = "pending" ->
                admit \o lookup \o send \o bytes \o Acquire("write", "PENDING")
                    \o Acquire("write", "LOG") \o Acquire("read", "STATE")
          [] path = "settled" ->
                admit \o lookup \o send \o bytes \o Acquire("write", "PENDING")
                    \o Acquire("write", "LOG") \o Acquire("read", "STATE")
                    \o <<<<"await", "sign">>, <<"await", "retry">>>> \o Acquire("write", "LOG")
                    \o <<<<"await", "retry bytes">>>>

HANDLER_PATHS == {"denied", "upstream error", "allowed", "pending", "settled"}

\* set_secret, save_policy, load_policy, and secure_config_keys for one key
control_locks(op) ==
    CASE op = "set_secret" -> Acquire("write", "STATE")
      [] op = "save_policy" -> Acquire("write", "STATE")
      [] op = "load_policy" -> Acquire("write", "STATE")
      [] op = "secure_config_keys" -> Acquire("write", "STATE") \o Acquire("write", "LOG")

CONTROL_OPS == {"set_secret", "save_policy", "load_policy", "secure_config_keys"}

\* the vault commands: one guard on VAULT each, held to the return
vault_locks(op) ==
    IF op \in {"vault_list_entries", "vault_get_secret", "vault_is_unlocked"}
    THEN Acquire("read", "VAULT")
    ELSE Acquire("write", "VAULT")

VAULT_OPS == {"vault_create", "vault_add_entry", "vault_lock", "vault_get_secret"}

\* get_evidence_log, get_evidence_stats, get_pending_402
query_locks(op) ==
    IF op = "get_pending_402" THEN Acquire("read", "PENDING") ELSE Acquire("read", "LOG")

QUERY_OPS == {"get_evidence_log", "get_pending_402"}

PROGRAMS ==
    {proxy_handler_locks(p) : p \in HANDLER_PATHS} \cup {control_locks(op) : op \in CONTROL_OPS}
    \cup {vault_locks(op) : op \in VAULT_OPS} \cup {query_locks(op) : op \in QUERY_OPS}

Running(t) == calls[t].pc = "run"
NextIns(t) == calls[t].prog[calls[t].at]

\* std::sync::RwLock: a reader waits for a writer, a writer for every holder
Available(t, ins) ==
    CASE ins[1] = "read" ->
            \A u \in ThreadIds : Running(u) => <<ins[2], "write">> \notin calls[u].holds
      [] ins[1] = "write" ->
            \A u \in ThreadIds : Running(u) => \A m \in {"read", "write"} : <<ins[2], m>> \notin calls[u].holds
      [] OTHER -> TRUE

CanStep(t) == Running(t) /\ Available(t, NextIns(t))

lockRest == <<VAULT, file, ret, hist, proxyVars, startVars, clock>>

BeginCall ==
    /\ \E t \in ThreadIds, prog \in PROGRAMS :
          /\ calls[t] = NoCall
          /\ calls' = [calls EXCEPT ![t] = [pc |-> "run", prog |-> prog, at |-> 1, holds |-> {}]]
    /\ UNCHANGED lockRest

\* one instruction of a thread; the operation returns after its last
StepCall ==
    /\ \E t \in ThreadIds :
          /\ CanStep(t)
          /\ LET ins == NextIns(t)
                 holds == CASE ins[1] \in {"read", "write"} -> calls[t].holds \cup {<<ins[2], ins[1]>>}
                            [] ins[1] = "release" -> {h \in calls[t].holds : h[1] # ins[2]}
                            [] OTHER -> calls[t].holds
             IN  calls' = [calls EXCEPT ![t] =
                     IF calls[t].at = Len(calls[t].prog) THEN NoCall
                     ELSE [@ EXCEPT !.at = @ + 1, !.holds = holds]]
    /\ UNCHANGED lockRest

NextLocks ==
    \/ BeginCall
    \/ StepCall

SpecLocks == Init /\ [][NextLocks]_vars

\* C28: a thread that is about to acquire a lock, or is suspended at an await, holds
\* no lock, and whenever operations are in flight one of them can take its next step:
\* requests and control-surface operations never deadlock
C28_NoLockHeldAcrossAcquireOrAwait ==
    /\ \A t \in ThreadIds :
          (Running(t) /\ NextIns(t)[1] \in {"read", "write", "await"}) => calls[t].holds = {}
    /\ (\E t \in ThreadIds : Running(t)) => \E t \in ThreadIds : CanStep(t)

\* a request waits for the policy while save_policy holds the write lock on it
C28_Witness ==
    /\ Running(1) /\ calls[1].prog = control_locks("save_policy")
    /\ calls[1].holds = {<<"STATE", "write">>}
    /\ Running(2) /\ calls[2].prog = proxy_handler_locks("settled")
    /\ NextIns(2) = <<"read", "STATE">>
    /\ ~CanStep(2)

-----------------------------------------------------------------------------
(* evidence.rs push, statement by statement: the clock is read before the lock on the
   log is taken *)

MaxTicks == 3

\* SystemTime::now(), in milliseconds since the epoch
SystemNow == 1700000000 + clock

\* line 19: let ts = chrono_ts()
push_stamp(t, kind, msg) ==
    /\ calls[t] = NoCall
    /\ calls' = [calls EXCEPT ![t] = [pc |-> "stamped", ts |-> chrono_ts(SystemNow), kind |-> kind, msg |-> msg]]

\* lines 25-30: the append under LOG.write()
push_append(t) ==
    /\ calls[t].pc = "stamped"
    /\ evidence_push(calls[t].ts, calls[t].kind, calls[t].msg)
    /\ calls' = [calls EXCEPT ![t] = NoCall]

pusherRest == <<VAULT, file, ret, hist, ProxyState, wallet, PENDING, reqs, recorded, startVars>>

PushStamp ==
    /\ Len(appended) + Cardinality({t \in ThreadIds : calls[t] # NoCall}) < MaxPushes
    /\ \E t \in ThreadIds, k \in 1..2 : push_stamp(t, KINDS[k], <<"entry">>)
    /\ UNCHANGED <<pusherRest, LOG, appended, clock>>

PushAppend ==
    /\ \E t \in ThreadIds : push_append(t)
    /\ UNCHANGED <<pusherRest, clock>>

Tick ==
    /\ clock < MaxTicks
    /\ clock' = clock + 1
    /\ UNCHANGED <<pusherRest, LOG, appended, calls>>

NextPushers ==
    \/ PushStamp
    \/ PushAppend
    \/ Tick

SpecPushers == Init /\ [][NextPushers]_vars

\* the milliseconds a timestamp "secs.mmm" stands for
TsMillis(ts) == ParseNat(SelectSeq(ts, LAMBDA c : c # "."))

\* C29: the timestamps of the evidence log never decrease along the log, whatever the
\* interleaving of the threads that push
C29_TimestampsMonotonic ==
    \A i \in 1..Len(LOG) : \A j \in 1..Len(LOG) :
        i < j => TsMillis(LOG[i].ts) <= TsMillis(LOG[j].ts)

-----------------------------------------------------------------------------
(* a request in flight while the proxy is started and stopped *)

\* the server thread accepts a request once it listens
FlightReceive == servers.listening = 1 /\ ReceiveStep
FlightPolicy == save_policy(Policy({}, {}, Some(100), REDACT, TRUE), TRUE)
FlightWallet == \E ph \in PHRASES : create_wallet(ph, TRUE, TRUE)
FlightStart == start_swap(1) /\ UNCHANGED restVars
FlightStartReturn == start_return(1) /\ UNCHANGED restVars
FlightStop == stop_swap(1) /\ UNCHANGED restVars
FlightStopReturn == stop_return(1) /\ UNCHANGED restVars

NextFlight ==
    \/ FlightReceive
    \/ InjectStep
    \/ UpstreamStep
    \/ SignStep
    \/ RetryStep
    \/ FlightPolicy
    \/ FlightWallet
    \/ FlightStart
    \/ FlightStartReturn
    \/ FlightStop
    \/ FlightStopReturn
    \/ ServerBind

\* the handler runs on; every upstream send returns a response or an error, and the
\* signing returns
FlightFairness ==
    /\ WF_vars(InjectStep)
    /\ WF_vars(UpstreamStep)
    /\ WF_vars(SignStep)
    /\ WF_vars(RetryStep)

SpecFlight == Init /\ [][NextFlight]_vars /\ FlightFairness

Terminal(slot) ==
    /\ slot.pc = "done"
    /\ IsSome(slot.resp)
    /\ \/ slot.end = "Denied" /\ Unwrap(slot.resp).status \in {403, 400} /\ slot.sent = <<>>
       \/ /\ slot.end = "BadGateway" /\ Unwrap(slot.resp).status = 502
          /\ Len(slot.sent) = 1 /\ ~Unwrap(slot.upstream).ok
       \/ /\ slot.end = "Responded"
          /\ Unwrap(slot.upstream).ok
          /\ Unwrap(slot.resp).status \in
                {Unwrap(slot.upstream).val.status} \cup
                {Unwrap(slot.retry).val.status : x \in {y \in {1} : IsSome(slot.retry) /\ Unwrap(slot.retry).ok}}

WithoutPayment(headers) == [n \in DOMAIN headers \ {"x-payment"} |-> headers[n]]

\* C32: a request causes at most two upstream sends; the second follows a first answer
\* of 402 and a signature that was obtained, and is the first send (method, URL, body,
\* headers with the injected credential) with the x-payment header added; a request
\* obtains at most one signature, which never changes
C32_RetryIsFirstSendPlusPayment ==
    [][\A r \in ReqIds :
          LET slot == reqs'[r] IN
          /\ Len(slot.sent) <= 2
          /\ Len(slot.sent) = 2 =>
                /\ Unwrap(slot.upstream).ok /\ Unwrap(slot.upstream).val.status = 402
                /\ IsSome(slot.sig) /\ Unwrap(slot.sig).ok
                /\ slot.sent[2].method = slot.sent[1].method
                /\ slot.sent[2].url = slot.sent[1].url
                /\ slot.sent[2].body = slot.sent[1].body
                /\ "x-payment" \in DOMAIN slot.sent[2].headers
                /\ WithoutPayment(slot.sent[2].headers) = WithoutPayment(slot.sent[1].headers)
          /\ IsSome(reqs[r].sig) => slot.sig = reqs[r].sig
          /\ (~IsSome(reqs[r].sig) /\ IsSome(slot.sig)) => reqs[r].pc = "signing"]_vars

\* a retry went out that carries the injected credential and the payment
C32_Witness ==
    /\ Len(reqs[1].sent) = 2
    /\ IsSome(reqs[1].auth_header)
    /\ "authorization" \in DOMAIN reqs[1].sent[2].headers
    /\ reqs[1].sent[2].headers["authorization"] = bearer(Unwrap(reqs[1].auth_header))

-----------------------------------------------------------------------------
(* 402 answers whose headers announce a payment and carry no payment JSON *)

Str_PAYMENT_REQUIRED ==
    <<"P", "A", "Y", "M", "E", "N", "T", "-", "R", "E", "Q", "U", "I", "R", "E", "D">>

FALLBACK_ANSWERS ==
    {Answer(Response(402, <<Header(<<"x">>, Str_402, Some(JNum(402)))>>, TextBody(Str_secret_text))),
     Answer(Response(402, <<Header(Str_PAYMENT_REQUIRED, <<"n", "o">>, NoneOpt)>>, TextBody(<<>>))),
     Answer(Response(402, <<Header(<<"x">>, Str_402, Some(JNum(402)))>>,
                     Body(TRUE, Some(JObj([payment_required |-> JBool(TRUE),
                                           amount_cents |-> JNum(50),
                                           recipient |-> JStr(Addr1)])), Str_secret_text)))}

FallbackAnswer ==
    \E r \in ReqIds, a \in FALLBACK_ANSWERS, now \in CLOCK, readOk \in BOOLEAN :
        Upstream(r, a, now, readOk)

NextFallback ==
    \/ ReceiveStep
    \/ InjectStep
    \/ FallbackAnswer
    \/ SignStep
    \/ SavePolicy
    \/ CreateWallet

SpecFallback == Init /\ [][NextFallback]_vars

\* the first answer was a 402 announced by its headers, with no payment JSON in a
\* payment-required header
Fallback(slot) ==
    /\ IsSome(slot.upstream)
    /\ Unwrap(slot.upstream).ok
    /\ LET resp == Unwrap(slot.upstream).val IN
          /\ resp.status = 402
          /\ \E i \in 1..Len(resp.headers) : announces_402(resp.headers[i])
          /\ ~IsSome(first_json_header(resp.headers))

\* recorded as a pending payment of amount zero; no signature, no retry
FallbackNeverSettled(slot) ==
    /\ slot.intent = Some(ZeroIntent)
    /\ Len(slot.pended) = 1
    /\ \E i \in 1..Len(PENDING) : PENDING[i].id = slot.pended[1] /\ PENDING[i].intent = ZeroIntent
    /\ IsSome(slot.sig) => ~Unwrap(slot.sig).ok
    /\ Len(slot.sent) = 1
    /\ ~IsSome(slot.retry)
    /\ slot.pc \in {"signing", "done"}

\* C33 as stated: a zero-amount fallback intent is recorded as pending and never
\* settled (no signature, no retry) under any policy, and the caller receives the
\* original 402: status, headers and body
C33_FallbackGetsOriginal402 ==
    \A r \in ReqIds :
        Fallback(reqs[r]) =>
            /\ FallbackNeverSettled(reqs[r])
            /\ reqs[r].pc = "done" => Unwrap(reqs[r].resp) = Unwrap(reqs[r].upstream).val

\* C33 amended: a zero-amount fallback intent is recorded as pending and never settled
\* (no signature, no retry) under any policy, and the caller receives the 402's status
\* and headers with its body passed through the output redaction of the policy
C33_FallbackGetsRedacted402 ==
    \A r \in ReqIds :
        Fallback(reqs[r]) =>
            /\ FallbackNeverSettled(reqs[r])
            /\ reqs[r].pc = "done" =>
                  Unwrap(reqs[r].resp) =
                      relay(Unwrap(reqs[r].upstream).val, reqs[r].redact_patterns)

\* under an auto-settling policy with a wallet the signing was tried for the fallback
\* intent and failed; the caller has the 402 with a body the redaction changed
C33_Witness ==
    /\ Fallback(reqs[1])
    /\ reqs[1].pc = "done"
    /\ IsSome(reqs[1].sig)
    /\ ~Unwrap(reqs[1].sig).ok
    /\ Unwrap(reqs[1].resp).status = 402
    /\ Unwrap(reqs[1].resp).body # Unwrap(reqs[1].upstream).val.body

-----------------------------------------------------------------------------
(* parse_402_required on its own *)

MaxHeaders == 2

\* the inputs are listed as sequences: JSON values of different types are not ordered
PARSE_HEADERS ==
    <<Header(Str_payment_required, DemandText(50, Addr1), Some(Demand(50, Addr1))),
      Header(Str_PAYMENT_REQUIRED, <<"{", "}">>, Some(JObj(<<>>))),
      Header(Str_payment_required, <<"n", "o">>, NoneOpt),
      Header(Str_payment_required, <<"7">>, Some(JNum(7))),
      Header(<<"x">>, <<"e", "r", "r", "o", "r", " ">> \o Str_402, NoneOpt),
      Header(<<"x">>, DemandText(7, Addr1), Some(Demand(7, Addr1)))>>

PARSE_HEADER_LISTS ==
    UNION {[1..n -> DOMAIN PARSE_HEADERS] : n \in 0..MaxHeaders}

PARSE_BODIES ==
    <<TextBody(<<>>),
      Body(FALSE, NoneOpt, <<>>),
      Body(TRUE, Some(JObj([payment_required |-> JBool(TRUE), amount_cents |-> JNum(50),
                            recipient |-> JStr(Addr1), network |-> JStr(Str_base_sepolia),
                            resource |-> JStr(Str_slash)])), <<>>),
      Body(TRUE, Some(JObj([payment_required |-> JBool(TRUE), amount_cents |-> JStr(<<"5">>)])), <<>>),
      Body(TRUE, Some(JObj([payment_required |-> JStr(<<"t", "r", "u", "e">>),
                            amount_cents |-> JNum(50)])), <<>>),
      Body(TRUE, Some(JObj([payment_required |-> JBool(FALSE)])), <<>>),
      Body(TRUE, Some(JNum(402)), Str_402)>>

\* one call in a run: the function reads no state and leaves none
Parse402 ==
    /\ ret.op = "none"
    /\ \E picked \in PARSE_HEADER_LISTS, b \in DOMAIN PARSE_BODIES :
          LET headers == [i \in DOMAIN picked |-> PARSE_HEADERS[picked[i]]]
              body == PARSE_BODIES[b]
          IN  ret' = [op |-> "parse_402_required", arg |-> <<headers, body>>,
                      res |-> parse_402_required(headers, body)]
    /\ UNCHANGED <<VAULT, file, hist, proxyVars, runVars>>

NextParse == Parse402

SpecParse == Init /\ [][NextParse]_vars

\* a field of a JSON value when it is there with the type asked for, or the default
Field(value, key, type, default) ==
    IF value.t = "obj" /\ key \in DOMAIN value.v /\ value.v[key].t = type
    THEN value.v[key].v ELSE default

Fields(value) ==
    [amount_cents |-> Field(value, "amount_cents", "num", 0),
     recipient |-> Field(value, "recipient", "str", <<>>),
     network |-> Field(value, "network", "str", Str_base),
     resource |-> IF value.t = "obj" /\ "resource" \in DOMAIN value.v /\ value.v["resource"].t = "str"
                  THEN Some(value.v["resource"].v) ELSE NoneOpt]

\* C34: parse_402_required returns the intent of the first payment-required header
\* (name in any case) whose value is JSON; otherwise the zero intent with network
\* "base" when a header is named payment-required or a header value contains 402,
\* whatever the body; otherwise the intent of the body when the body is JSON with
\* payment_required: true; otherwise none; missing fields default to 0, "" and "base"
C34_ParseFollowsTheOrder ==
    ret.op = "parse_402_required" =>
        LET headers == ret.arg[1]
            body == ret.arg[2]
            named == {i \in 1..Len(headers) :
                         ToLower(headers[i].name) = ToLower(Str_payment_required)}
            json == {i \in named : IsSome(headers[i].json)}
            announced == named # {} \/ \E i \in 1..Len(headers) : Contains(headers[i].text, Str_402)
        IN  IF json # {}
            THEN ret.res = Some(Fields(Unwrap(headers[CHOOSE i \in json : \A j \in json : i <= j].json)))
            ELSE IF announced
            THEN ret.res = Some([amount_cents |-> 0, recipient |-> <<>>, network |-> Str_base,
                                 resource |-> NoneOpt])
            ELSE IF /\ IsSome(body.json)
                    /\ Field(Unwrap(body.json), "payment_required", "bool", FALSE)
            THEN ret.res = Some(Fields(Unwrap(body.json)))
            ELSE ret.res = NoneOpt

\* an upper-case PAYMENT-REQUIRED header with an empty JSON object after one that is no
\* JSON, next to a body that demands a payment: the intent of defaults, from the header
C34_Witness ==
    /\ ret.op = "parse_402_required"
    /\ Len(ret.arg[1]) = 2
    /\ ret.arg[1][1] = Header(Str_payment_required, <<"n", "o">>, NoneOpt)
    /\ ret.arg[1][2] = Header(Str_PAYMENT_REQUIRED, <<"{", "}">>, Some(JObj(<<>>)))
    /\ IsSome(ret.arg[2].json)
    /\ ret.res = Some(ZeroIntent)

\* C35: an add_entry or delete_entry that returns an error leaves the session as it
\* was: the entries that list_entries and get_secret read are those of before the call
C35_FailedUpdateLeavesSession ==
    [][(ret'.op \in {"vault_add_entry", "vault_delete_entry"} /\ ~ret'.res.ok /\ ret' # ret) =>
          VAULT' = VAULT]_vars

\* C36: whenever get_wallet_info reports a wallet, the address it reports is the
\* address of the key sign_x402_payment signs with, the one derived from the mnemonic
\* in the credential store
C36_InfoAddressIsSigningAddress ==
    get_wallet_info(wallet, TRUE).val.has_wallet =>
        /\ IsSome(wallet.keychain)
        /\ get_wallet_info(wallet, TRUE).val.address = address_of(Unwrap(wallet.keychain))

-----------------------------------------------------------------------------
(* record_pending under a clock that moves forward *)

\* x402.rs record_pending as the handler calls it: the id is the clock's milliseconds
RecordNow ==
    /\ Len(recorded) < MaxRecords
    /\ \E intent \in INTENTS :
          /\ x402_record_pending(intent, pay_id(SystemNow), as_secs(SystemNow))
          /\ ret' = [op |-> "record_pending", arg |-> intent, res |-> pay_id(SystemNow)]
    /\ UNCHANGED <<runVars, VAULT, file, hist, ProxyState, wallet, LOG, appended, reqs>>

NextPendingIds ==
    \/ RecordNow
    \/ Tick

SpecPendingIds == Init /\ [][NextPendingIds]_vars

\* C37: the ids of the payments in the pending queue are pairwise distinct
C37_PendingIdsDistinct ==
    \A i \in 1..Len(PENDING) : \A j \in 1..Len(PENDING) :
        i # j => PENDING[i].id # PENDING[j].id

\* C38: a create with a passphrase of 12 or more is never refused because a sealed
\* file or a session exists (only the write to the disk can fail it); when it succeeds
\* the sealed file is a new record under the key of the new passphrase and the salt of
\* its header, holding the empty entry list, the session is an empty unlocked session
\* under that key, and no passphrase opens the file to anything but the empty list
C38_CreateReplacesVault ==
    [][(ret'.op = "vault_create" /\ Len(ret'.arg) >= 12) =>
          /\ ~ret'.res.ok => ret'.res = Err("write")
          /\ ret'.res.ok =>
                /\ file'.kind = "record"
                /\ file'.ciphertext.k = derive_key(ret'.arg, file'.salt)
                /\ VAULT' = Some(VaultState(<<>>, derive_key(ret'.arg, file'.salt)))
                /\ \A p \in PASSPHRASES :
                      LET opened == decrypt_entries(file'.ciphertext, file'.nonce,
                                                    derive_key(p, file'.salt))
                      IN  opened.ok => opened.val = <<>>
                /\ LET opened == decrypt_entries(file'.ciphertext, file'.nonce,
                                                 derive_key(ret'.arg, file'.salt))
                   IN  opened = Ok(<<>>)]_vars

\* a create with another passphrase succeeded over a sealed file and an unlocked
\* session that held entries
C38_Witness ==
    /\ ret = [op |-> "vault_create", arg |-> PassB, res |-> Ok(<<>>)]
    /\ hist.replaced
    /\ IsSome(VAULT)
    /\ Unwrap(VAULT).entries = <<>>
    /\ file.kind = "record"

-----------------------------------------------------------------------------
(* an upstream that echoes the Authorization header it received *)

\* a 402 whose payment-required header names as recipient the Authorization value of
\* the request the upstream received
EchoOf(out) ==
    Answer(Response(402,
                    PaymentHeader(50, IF "authorization" \in DOMAIN out.headers
                                      THEN out.headers["authorization"] ELSE Addr1),
                    TextBody(<<>>)))

EchoAnswer ==
    \E r \in ReqIds, now \in CLOCK, readOk \in BOOLEAN :
        /\ reqs[r].pc = "forwarded"
        /\ Upstream(r, EchoOf(reqs[r].sent[1]), now, readOk)

NextEcho ==
    \/ Call
    \/ SetSecret
    \/ SavePolicy
    \/ CreateWallet
    \/ InjectStep
    \/ EchoAnswer
    \/ Reply
    \/ SignStep

SpecEcho == Init /\ [][NextEcho]_vars

\* C39: no evidence entry of a request contains the credential value injected into it
C39_EvidenceHoldsNoCredential ==
    \A r \in ReqIds :
        IsSome(reqs[r].auth_header) =>
            \A i \in 1..Len(reqs[r].pushed) :
                ~Contains(reqs[r].pushed[i].msg, Unwrap(reqs[r].auth_header))

====
